---- MODULE Spec2Model ----
(***************************************************************************)
(* EPL forecast notification pipeline: the snapshot store, the change      *)
(* detector, the content generator, the rate limiter and the orchestrator  *)
(* of src/backend, as a state machine over the DynamoDB history table, the *)
(* clock and the push gateway.                                             *)
(*                                                                         *)
(* Time is in whole seconds (int(datetime.now().timestamp())).  Forecasted *)
(* points are in tenths of a point (the calculator rounds to 1 decimal).   *)
(***************************************************************************)
EXTENDS Integers, Sequences, FiniteSets, TLC

VARIABLES
    env,            \* what the environment configures: the table names, or the deployment of the gateway
    now,            \* the clock, seconds
    history,        \* the 'snapshot_*' rows of the history table
    latest,         \* the 'latest-2024-25' row of the history table: {} or {item}
    notifications,  \* the 'notification_*' rows of the history table
    published,      \* messages the push platform accepted (SNS publish calls that returned)
    result,         \* what the last operation returned and logged
    script,         \* steps taken of the regular period every behaviour starts with
    period,         \* seconds between the update cycles of the regular period
    ops,            \* operations invoked after the regular period
    ticks,          \* clock steps taken after the regular period
    saves,          \* the calls of save_forecast_snapshot under way, per handler
    cycles,         \* the calls of process_forecast_update under way, per invocation
    rule,           \* the polling rule of the live fetcher at the event bus: {} or {rule}
    preferences_table, \* the items of the user preferences table
    endpoints       \* the endpoints registered with the push platform application, in listing order

vars == <<env, now, history, latest, notifications, published, result, script, period, ops,
          ticks, saves, cycles, rule, preferences_table, endpoints>>

----------------------------------------------------------------------------
(* Rate limiting configuration, NotificationRateLimiter.__init__ *)

max_notifications_per_hour == 5
max_notifications_per_day == 20
min_time_between_notifications == 300
duplicate_content_window == 3600
cooldown_after_burst == 1800
HourSeconds == 3600
DaySeconds == 86400
ttl_seconds == 7776000
scan_limit == 10

----------------------------------------------------------------------------
(* Bounds of the model *)

\* update cycles of the regular period
MaxPrior == 21
\* operations explored after the regular period
MaxOps == 1
\* invocations of process_forecast_update running at the same time
MaxInvocations == 2
\* clock steps explored after the regular period
MaxTicks == 1
\* records of an input history of the limiter called on its own
MaxHistory == 21
\* the clock when the limiter is called on its own
StartTime == 40000

\* the positions of the league table
LeagueSize == 20

\* seconds the clock may advance in one step
Deltas == {1, 299, 300, 1800}
\* seconds between the update cycles of the regular period
PriorGaps == {300, 1800}
\* seconds between the records of an input history of the limiter
HistoryGaps == {300, 900, 1800}
\* seconds the clock may advance before the limiter is called on its own
LimiterDeltas == {1, 299, 300, 1799, 1800, 3599, 3600, 86400}

----------------------------------------------------------------------------
(* Helpers *)

Max(S) == CHOOSE x \in S : \A y \in S : y <= x

Abs(x) == IF x < 0 THEN -x ELSE x

----------------------------------------------------------------------------
(* models.py: the data *)

Teams == {"Arsenal", "Chelsea"}

\* str.lower() on the team names that occur
lower(name) ==
    CASE name = "Arsenal" -> "arsenal"
      [] name = "Chelsea" -> "chelsea"
      [] OTHER -> name

\* forecast_data['teams'] as calculate_forecasts produces it: per team the
\* forecasted position and the forecasted points (tenths)
ForecastData ==
    { [Arsenal |-> [forecasted_position |-> 5, forecasted_points |-> 500],
       Chelsea |-> [forecasted_position |-> 4, forecasted_points |-> 520]],
      [Arsenal |-> [forecasted_position |-> 4, forecasted_points |-> 530],
       Chelsea |-> [forecasted_position |-> 5, forecasted_points |-> 520]],
      [Arsenal |-> [forecasted_position |-> 1, forecasted_points |-> 800],
       Chelsea |-> [forecasted_position |-> 5, forecasted_points |-> 520]] }

TeamsOf(forecast_data) == DOMAIN forecast_data

\* The stored user preferences (the preferences table is written by the API only)
UserIds == {"u1", "u2", "u3", "u4"}

UserNotificationPreferences ==
    [u \in UserIds |->
        CASE u = "u1" -> [user_id |-> "u1", team_name |-> "Arsenal", enabled |-> TRUE,
                          notification_timing |-> "immediate",
                          notification_sensitivity |-> "any_change",
                          push_token |-> TRUE]
          [] u = "u2" -> [user_id |-> "u2", team_name |-> "Chelsea", enabled |-> TRUE,
                          notification_timing |-> "end_of_day",
                          notification_sensitivity |-> "any_change",
                          push_token |-> TRUE]
          [] u = "u3" -> [user_id |-> "u3", team_name |-> "Arsenal", enabled |-> FALSE,
                          notification_timing |-> "immediate",
                          notification_sensitivity |-> "significant_only",
                          push_token |-> FALSE]
          [] OTHER    -> [user_id |-> "u4", team_name |-> "arsenal", enabled |-> TRUE,
                          notification_timing |-> "end_of_day",
                          notification_sensitivity |-> "any_change",
                          push_token |-> FALSE] ]

\* the items of the table, one for each user
PreferencesItems == { UserNotificationPreferences[u] : u \in UserIds }

\* the order in which preferences_table.scan() returns the items
ScanOrder == <<"u1", "u2", "u3", "u4">>

\* ForecastPosition.is_significant_position
is_significant_position(position) ==
    (IF position = 1 THEN {"title_position"} ELSE {})
    \cup (IF 1 <= position /\ position <= 4 THEN {"champions_league"} ELSE {})
    \cup (IF 18 <= position /\ position <= 20 THEN {"relegation"} ELSE {})

\* ForecastSnapshot.get_team_position: the first team whose lowered name matches
get_team_position(snapshot, team_name) ==
    { snapshot.teams[t] : t \in { x \in DOMAIN snapshot.teams : lower(x) = lower(team_name) } }

\* PositionChange.is_significant_change
is_significant_change(change, previous_snapshot, new_snapshot) ==
    LET prev_team == get_team_position(previous_snapshot, change.team_name)
        new_team == get_team_position(new_snapshot, change.team_name)
    IN IF prev_team = {} \/ new_team = {} THEN FALSE
       ELSE is_significant_position((CHOOSE p \in prev_team : TRUE).position)
            # is_significant_position((CHOOSE p \in new_team : TRUE).position)

\* PositionChange.is_improvement
is_improvement(change) == change.new_position - change.previous_position < 0

----------------------------------------------------------------------------
(* forecast_history.py: the snapshot store and the change detector *)

\* The ForecastSnapshot built from forecast data (save_forecast_snapshot lines
\* 38-64 and _create_snapshot_from_data build the same object)
_create_snapshot_from_data(forecast_data, context, timestamp) ==
    [timestamp |-> timestamp,
     season |-> "2024-25",
     teams |-> [t \in TeamsOf(forecast_data) |->
                   [team_name |-> t,
                    position |-> forecast_data[t].forecasted_position,
                    points |-> forecast_data[t].forecasted_points]],
     context |-> context]

\* None, where a context or a snapshot is absent
None == "<None>"

\* ForecastSnapshot.to_dynamodb_item
to_dynamodb_item(snapshot) ==
    [snapshot_id |-> "snapshot_" \o ToString(snapshot.timestamp),
     timestamp |-> snapshot.timestamp,
     season |-> snapshot.season,
     teams |-> snapshot.teams,
     context |-> snapshot.context]

\* save_forecast_snapshot lines 38-70: the item of the snapshot taken at the
\* timestamp, with its ttl
snapshot_item(forecast_data, context, timestamp) ==
    to_dynamodb_item(_create_snapshot_from_data(forecast_data, context, timestamp))
    @@ [ttl |-> timestamp + ttl_seconds]

\* lines 77-78 with the copy stamped anew
latest_item_restamped(item) ==
    [item EXCEPT !.snapshot_id = "latest-" \o item.season, !.timestamp = @ + 1]

\* lines 77-78: the copy of the item under the key of the latest row
latest_item(item) == [item EXCEPT !.snapshot_id = "latest-" \o item.season]

\* Table.put_item of a snapshot row: a row of the same snapshot_id is replaced
put_snapshot(table, item) ==
    { i \in table : i.snapshot_id # item.snapshot_id } \cup {item}

\* save_forecast_snapshot: the timestamped rows and the 'latest-{season}' row
\* after the call, and the snapshot returned ({} when it raised).  Without a history table it raises before writing; put_item
\* may raise (ok = FALSE), and the handlers catch either.
save_forecast_snapshot(e, table, row, forecast_data, context, timestamp, ok) ==
    IF ~e.FORECAST_HISTORY_TABLE
    THEN [history |-> table, latest |-> row, snapshot |-> {}, raised |-> TRUE]
    ELSE IF ~ok THEN [history |-> table, latest |-> row, snapshot |-> {}, raised |-> TRUE]
    ELSE LET item == snapshot_item(forecast_data, context, timestamp)
         IN [history |-> put_snapshot(table, item),
             latest |-> put_snapshot(row, latest_item(item)),
             snapshot |-> {_create_snapshot_from_data(forecast_data, context, timestamp)},
             raised |-> FALSE]

\* _item_to_snapshot: each attribute read with its default
_item_to_snapshot(item) ==
    [timestamp |-> IF "timestamp" \in DOMAIN item THEN item.timestamp ELSE 0,
     season |-> IF "season" \in DOMAIN item THEN item.season ELSE "",
     teams |-> IF "teams" \in DOMAIN item THEN item.teams ELSE [t \in {} |-> None],
     context |-> IF "context" \in DOMAIN item THEN item.context ELSE None]

\* get_latest_snapshot: {} stands for None
get_latest_snapshot(e, row, ok) ==
    IF ~e.FORECAST_HISTORY_TABLE THEN {}
    ELSE IF ~ok THEN {}
    ELSE { _item_to_snapshot(item) : item \in row }

\* the items a scan with Limit evaluates: the whole table if it has no more
\* than Limit items, else Limit of them
ScanPages(table, Limit) ==
    IF Cardinality(table) <= Limit THEN {table}
    ELSE { page \in SUBSET table : Cardinality(page) = Limit }

\* get_snapshot_before_timestamp on the items of the history table: the
\* snapshots it can return ({} stands for None), one per page the scan may
\* evaluate and per item that the sort may put first
get_snapshot_before_timestamp(e, table, before_timestamp, ok) ==
    IF ~e.FORECAST_HISTORY_TABLE THEN {{}}
    ELSE IF ~ok THEN {{}}
    ELSE UNION { LET items == { i \in page : i.timestamp < before_timestamp }
                 IN IF items = {} THEN {{}}
                    ELSE { {_item_to_snapshot(i)} :
                             i \in { x \in items : \A y \in items : y.timestamp <= x.timestamp } }
                 : page \in ScanPages(table, scan_limit) }

\* detect_position_changes without the comparison of the positions
detect_position_changes_of_every_team(previous_snapshot, current_snapshot) ==
    { [team_name |-> t,
       previous_position |-> previous_snapshot.teams[t].position,
       new_position |-> current_snapshot.teams[t].position,
       previous_points |-> previous_snapshot.teams[t].points,
       new_points |-> current_snapshot.teams[t].points,
       change_context |-> IF current_snapshot.context \in {"", None}
                          THEN "Position update" ELSE current_snapshot.context,
       timestamp |-> current_snapshot.timestamp] :
      t \in DOMAIN current_snapshot.teams \cap DOMAIN previous_snapshot.teams }

\* detect_position_changes
detect_position_changes(previous_snapshot, current_snapshot) ==
    { [team_name |-> t,
       previous_position |-> previous_snapshot.teams[t].position,
       new_position |-> current_snapshot.teams[t].position,
       previous_points |-> previous_snapshot.teams[t].points,
       new_points |-> current_snapshot.teams[t].points,
       change_context |-> IF current_snapshot.context \in {"", None}
                          THEN "Position update" ELSE current_snapshot.context,
       timestamp |-> current_snapshot.timestamp] :
      t \in { x \in DOMAIN current_snapshot.teams :
                /\ x \in DOMAIN previous_snapshot.teams
                /\ previous_snapshot.teams[x].position # current_snapshot.teams[x].position } }

----------------------------------------------------------------------------
(* notification_content_generator.py *)

\* _analyze_position_change with the size of the move looked at before the
\* Europa League boundary
_analyze_position_change_distance_first(change) ==
    LET prev_pos == change.previous_position
        new_pos == change.new_position
    IN IF prev_pos # 1 /\ new_pos = 1 THEN <<"title_gained", "high">>
       ELSE IF prev_pos = 1 /\ new_pos # 1 THEN <<"title_lost", "high">>
       ELSE IF prev_pos > 4 /\ new_pos <= 4 THEN <<"champions_league_in", "high">>
       ELSE IF prev_pos <= 4 /\ new_pos > 4 THEN <<"champions_league_out", "high">>
       ELSE IF Abs(new_pos - prev_pos) >= 3
            THEN <<(IF is_improvement(change) THEN "significant_up" ELSE "significant_down"),
                   "medium">>
       ELSE IF prev_pos > 7 /\ new_pos <= 7 THEN <<"europa_in", "medium">>
       ELSE IF prev_pos <= 7 /\ new_pos > 7 THEN <<"europa_out", "medium">>
       ELSE IF prev_pos < 18 /\ new_pos >= 18 THEN <<"relegation_in", "high">>
       ELSE IF prev_pos >= 18 /\ new_pos < 18 THEN <<"relegation_out", "high">>
       ELSE <<(IF is_improvement(change) THEN "minor_up" ELSE "minor_down"), "low">>

\* _analyze_position_change without the Europa League boundary
_analyze_position_change_without_europa(change) ==
    LET prev_pos == change.previous_position
        new_pos == change.new_position
    IN IF prev_pos # 1 /\ new_pos = 1 THEN <<"title_gained", "high">>
       ELSE IF prev_pos = 1 /\ new_pos # 1 THEN <<"title_lost", "high">>
       ELSE IF prev_pos > 4 /\ new_pos <= 4 THEN <<"champions_league_in", "high">>
       ELSE IF prev_pos <= 4 /\ new_pos > 4 THEN <<"champions_league_out", "high">>
       ELSE IF prev_pos < 18 /\ new_pos >= 18 THEN <<"relegation_in", "high">>
       ELSE IF prev_pos >= 18 /\ new_pos < 18 THEN <<"relegation_out", "high">>
       ELSE IF Abs(new_pos - prev_pos) >= 3
            THEN <<(IF is_improvement(change) THEN "significant_up" ELSE "significant_down"),
                   "medium">>
       ELSE <<(IF is_improvement(change) THEN "minor_up" ELSE "minor_down"), "low">>

\* _analyze_position_change: <<change_type, significance>>
_analyze_position_change(change) ==
    LET prev_pos == change.previous_position
        new_pos == change.new_position
    IN IF prev_pos # 1 /\ new_pos = 1 THEN <<"title_gained", "high">>
       ELSE IF prev_pos = 1 /\ new_pos # 1 THEN <<"title_lost", "high">>
       ELSE IF prev_pos > 4 /\ new_pos <= 4 THEN <<"champions_league_in", "high">>
       ELSE IF prev_pos <= 4 /\ new_pos > 4 THEN <<"champions_league_out", "high">>
       ELSE IF prev_pos > 7 /\ new_pos <= 7 THEN <<"europa_in", "medium">>
       ELSE IF prev_pos <= 7 /\ new_pos > 7 THEN <<"europa_out", "medium">>
       ELSE IF prev_pos < 18 /\ new_pos >= 18 THEN <<"relegation_in", "high">>
       ELSE IF prev_pos >= 18 /\ new_pos < 18 THEN <<"relegation_out", "high">>
       ELSE IF Abs(new_pos - prev_pos) >= 3
            THEN <<(IF is_improvement(change) THEN "significant_up" ELSE "significant_down"),
                   "medium">>
       ELSE <<(IF is_improvement(change) THEN "minor_up" ELSE "minor_down"), "low">>

\* position_emojis; each emoji is written as its name in brackets
position_emojis ==
    [title |-> "[trophy]", champions_league |-> "[star]", europa |-> "[glowing star]",
     relegation |-> "[warning]", up |-> "[chart up]", down |-> "[chart down]",
     stable |-> "[right arrow]", test |-> "[test tube]"]

\* the emoji _generate_title puts in front of the title of a change type
emoji_map ==
    [title_gained |-> position_emojis.title,
     title_lost |-> position_emojis.down,
     champions_league_in |-> position_emojis.champions_league,
     champions_league_out |-> position_emojis.down,
     europa_in |-> position_emojis.europa,
     europa_out |-> position_emojis.down,
     relegation_in |-> position_emojis.relegation,
     relegation_out |-> position_emojis.up,
     significant_up |-> position_emojis.up,
     significant_down |-> position_emojis.down,
     minor_up |-> position_emojis.up,
     minor_down |-> position_emojis.down]

\* title_templates, each filled with the emoji, the team and the position
title_templates(change_type, emoji, team, position) ==
    CASE change_type = "title_gained" -> emoji \o " " \o team \o " forecasted for 1st place!"
      [] change_type = "title_lost" -> emoji \o " " \o team \o " dropped from 1st place"
      [] change_type = "champions_league_in" ->
             emoji \o " " \o team \o " into Champions League positions!"
      [] change_type = "champions_league_out" ->
             emoji \o " " \o team \o " dropped out of Champions League"
      [] change_type = "europa_in" -> emoji \o " " \o team \o " into Europa League positions!"
      [] change_type = "europa_out" -> emoji \o " " \o team \o " dropped out of Europa League"
      [] change_type = "relegation_in" -> emoji \o " " \o team \o " in relegation zone"
      [] change_type = "relegation_out" -> emoji \o " " \o team \o " out of relegation zone!"
      [] change_type = "significant_up" -> emoji \o " " \o team \o " climbed to " \o position
      [] change_type = "significant_down" -> emoji \o " " \o team \o " dropped to " \o position
      [] change_type = "minor_up" -> emoji \o " " \o team \o " moved up in forecast"
      [] change_type = "minor_down" -> emoji \o " " \o team \o " moved down in forecast"
      [] change_type = "test" -> emoji \o " EPL Forecast Test - " \o team
      [] OTHER -> emoji \o " " \o team \o " position update"

\* _ordinal_position: 1st, 2nd, 3rd, 4th, ... with th for 10..20
_ordinal_position(position) ==
    LET suffix == IF 10 <= position % 100 /\ position % 100 <= 20 THEN "th"
                  ELSE CASE position % 10 = 1 -> "st"
                         [] position % 10 = 2 -> "nd"
                         [] position % 10 = 3 -> "rd"
                         [] OTHER -> "th"
    IN ToString(position) \o suffix

\* _generate_title
_generate_title(change, change_type) ==
    title_templates(change_type, emoji_map[change_type], change.team_name,
                    _ordinal_position(change.new_position))

RECURSIVE strip(_)
\* str.strip() of the blanks at either end
strip(text) ==
    IF Len(text) = 0 THEN text
    ELSE IF SubSeq(text, 1, 1) = " " THEN strip(SubSeq(text, 2, Len(text)))
    ELSE IF SubSeq(text, Len(text), Len(text)) = " "
    THEN strip(SubSeq(text, 1, Len(text) - 1))
    ELSE text

\* str.startswith
startswith(text, prefix) ==
    Len(text) >= Len(prefix) /\ SubSeq(text, 1, Len(prefix)) = prefix

\* the context appended to the body without the "after" put in front
clean_context_verbatim(context) ==
    IF strip(context) = "" THEN "" ELSE " " \o strip(context)

\* lines 270-275 of _generate_body: the stripped context, with "after " in front
\* unless it starts with "after", appended after a blank; nothing for an empty one
clean_context(context) ==
    IF strip(context) = "" THEN ""
    ELSE IF startswith(strip(context), "after") THEN " " \o strip(context)
    ELSE " after " \o strip(context)

\* f"{points_diff:.1f}" of a difference in tenths
format_points(points_diff) ==
    (IF points_diff < 0 THEN "-" ELSE "")
    \o ToString(Abs(points_diff) \div 10) \o "." \o ToString(Abs(points_diff) % 10)

\* _generate_body
_generate_body(change, change_type, context) ==
    LET team == change.team_name
        prev_pos == _ordinal_position(change.previous_position)
        new_pos == _ordinal_position(change.new_position)
        movement_desc == IF is_improvement(change)
                         THEN "moved up from " \o prev_pos \o " to " \o new_pos
                         ELSE "dropped from " \o prev_pos \o " to " \o new_pos
        points_diff == change.new_points - change.previous_points
        points_desc == IF Abs(points_diff) > 1
                       THEN IF points_diff > 0
                            THEN " (+" \o format_points(points_diff) \o " points)"
                            ELSE " (" \o format_points(points_diff) \o " points)"
                       ELSE ""
        body == team \o " " \o movement_desc \o " in the EPL forecast" \o points_desc
                \o clean_context(context)
    IN CASE change_type = "title_gained" -> body \o " [trophy] Title contenders!"
         [] change_type = "champions_league_in" ->
                body \o " [star] Champions League qualification!"
         [] change_type = "relegation_in" -> body \o " [warning] Relegation battle intensifies"
         [] change_type = "relegation_out" ->
                body \o " [raised hands] Climbing away from relegation"
         [] OTHER -> body

\* generate_position_change_notification
generate_position_change_notification(change, context) ==
    LET change_type == _analyze_position_change(change)[1]
    IN [title |-> _generate_title(change, change_type),
        body |-> _generate_body(change, change_type, context),
        team_name |-> change.team_name,
        notification_type |-> "position_change"]

\* generate_test_notification
generate_test_notification(preferences) ==
    [title |-> title_templates("test", position_emojis.test, preferences.team_name, ""),
     body |-> "Test notification for " \o preferences.team_name
              \o " forecast updates. Settings: " \o preferences.notification_timing
              \o ", " \o preferences.notification_sensitivity,
     team_name |-> preferences.team_name,
     notification_type |-> "test"]

----------------------------------------------------------------------------
(* notification_rate_limiter.py *)

\* _generate_content_hash: md5 of "title|body|team_name", cut to 16 hex digits.
\* The digest is a function of that string alone; it is kept as the triple it is
\* computed from (collisions of the 64-bit digest are not modelled).
_generate_content_hash(content) == <<content.title, content.body, content.team_name>>

\* _get_recent_notifications: the user's rows of the last 24 hours; a scan that
\* raises is caught inside and yields the empty list
_get_recent_notifications(table, user_id, current_time, ok) ==
    IF ~ok THEN {}
    ELSE { n \in table : n.user_id = user_id /\ n.timestamp >= current_time - DaySeconds }

\* the hourly check with the cap off by one
HourlyCheckOffByOne(recent, current_time) ==
    LET hourly_count == Cardinality({ n \in recent : current_time - n.timestamp <= HourSeconds })
    IN IF hourly_count > max_notifications_per_hour
       THEN LET last_notification_time == Max({ n.timestamp : n \in recent } \cup {0})
                cooldown_remaining == (last_notification_time + cooldown_after_burst) - current_time
            IN IF cooldown_remaining > 0
               THEN [denied |-> TRUE, wait |-> cooldown_remaining \div 60]
               ELSE [denied |-> FALSE, wait |-> 0]
       ELSE [denied |-> FALSE, wait |-> 0]

\* the hourly check with the cooldown branch dropped: deny at the hourly cap
HourlyCheckStrict(recent, current_time) ==
    LET hourly_count == Cardinality({ n \in recent : current_time - n.timestamp <= HourSeconds })
    IN IF hourly_count >= max_notifications_per_hour
       THEN LET last_notification_time == Max({ n.timestamp : n \in recent } \cup {0})
            IN [denied |-> TRUE,
                wait |-> ((last_notification_time + cooldown_after_burst) - current_time) \div 60]
       ELSE [denied |-> FALSE, wait |-> 0]

\* lines 85-97: the hourly rate limit and its cooldown
HourlyCheck(recent, current_time) ==
    LET hourly_count == Cardinality({ n \in recent : current_time - n.timestamp <= HourSeconds })
    IN IF hourly_count >= max_notifications_per_hour
       THEN LET last_notification_time == Max({ n.timestamp : n \in recent } \cup {0})
                cooldown_remaining == (last_notification_time + cooldown_after_burst) - current_time
            IN IF cooldown_remaining > 0
               THEN [denied |-> TRUE, wait |-> cooldown_remaining \div 60]
               ELSE [denied |-> FALSE, wait |-> 0]
       ELSE [denied |-> FALSE, wait |-> 0]

\* the daily check off by one
DailyCheckOffByOne(recent, current_time) ==
    Cardinality({ n \in recent : current_time - n.timestamp <= DaySeconds })
        > max_notifications_per_day

\* lines 99-104: the daily rate limit
DailyCheck(recent, current_time) ==
    Cardinality({ n \in recent : current_time - n.timestamp <= DaySeconds })
        >= max_notifications_per_day

\* the spacing check one second short
SpacingCheckShort(recent, current_time) ==
    IF recent # {}
    THEN LET time_since_last == current_time - Max({ n.timestamp : n \in recent })
         IN [denied |-> time_since_last < min_time_between_notifications - 1,
             wait |-> (min_time_between_notifications - time_since_last) \div 60]
    ELSE [denied |-> FALSE, wait |-> 0]

\* lines 106-113: the minimum time between notifications
SpacingCheck(recent, current_time) ==
    IF recent # {}
    THEN LET time_since_last == current_time - Max({ n.timestamp : n \in recent })
         IN [denied |-> time_since_last < min_time_between_notifications,
             wait |-> (min_time_between_notifications - time_since_last) \div 60]
    ELSE [denied |-> FALSE, wait |-> 0]

\* the duplicate check with the window's end included
DuplicateCheckInclusive(recent, current_time, content) ==
    \E n \in recent :
        /\ n.content_hash = _generate_content_hash(content)
        /\ current_time - n.timestamp <= duplicate_content_window

\* lines 115-122: duplicate content within the window
DuplicateCheck(recent, current_time, content) ==
    \E n \in recent :
        /\ n.content_hash = _generate_content_hash(content)
        /\ current_time - n.timestamp < duplicate_content_window

\* can_send_notification with the daily and the spacing checks in the other order
can_send_notification_swapped(e, table, user_id, current_time, content, ok) ==
    IF ~e.FORECAST_HISTORY_TABLE
    THEN [can_send |-> TRUE, reason |-> "Rate limiting not configured", wait |-> 0]
    ELSE LET recent == _get_recent_notifications(table, user_id, current_time, ok)
         IN IF HourlyCheck(recent, current_time).denied
            THEN [can_send |-> FALSE, reason |-> "Rate limit exceeded. Cooldown",
                  wait |-> HourlyCheck(recent, current_time).wait]
            ELSE IF SpacingCheck(recent, current_time).denied
            THEN [can_send |-> FALSE, reason |-> "Too soon since last notification",
                  wait |-> SpacingCheck(recent, current_time).wait]
            ELSE IF DailyCheck(recent, current_time)
            THEN [can_send |-> FALSE, reason |-> "Daily notification limit exceeded", wait |-> 0]
            ELSE IF DuplicateCheck(recent, current_time, content)
            THEN [can_send |-> FALSE, reason |-> "Duplicate notification content within window",
                  wait |-> 0]
            ELSE [can_send |-> TRUE, reason |-> "Notification allowed", wait |-> 0]

\* can_send_notification: (can_send, reason); wait is the number of minutes the
\* reason names.  The scan's failure never reaches the except clause of line 126:
\* _get_recent_notifications has caught it.
can_send_notification(e, table, user_id, current_time, content, ok) ==
    IF ~e.FORECAST_HISTORY_TABLE
    THEN [can_send |-> TRUE, reason |-> "Rate limiting not configured", wait |-> 0]
    ELSE LET recent == _get_recent_notifications(table, user_id, current_time, ok)
         IN IF HourlyCheck(recent, current_time).denied
            THEN [can_send |-> FALSE, reason |-> "Rate limit exceeded. Cooldown",
                  wait |-> HourlyCheck(recent, current_time).wait]
            ELSE IF DailyCheck(recent, current_time)
            THEN [can_send |-> FALSE, reason |-> "Daily notification limit exceeded", wait |-> 0]
            ELSE IF SpacingCheck(recent, current_time).denied
            THEN [can_send |-> FALSE, reason |-> "Too soon since last notification",
                  wait |-> SpacingCheck(recent, current_time).wait]
            ELSE IF DuplicateCheck(recent, current_time, content)
            THEN [can_send |-> FALSE, reason |-> "Duplicate notification content within window",
                  wait |-> 0]
            ELSE [can_send |-> TRUE, reason |-> "Notification allowed", wait |-> 0]

\* can_send_notification_by_user_id
can_send_notification_by_user_id(e, table, user_id, current_time, ok) ==
    IF ~e.FORECAST_HISTORY_TABLE
    THEN [can_send |-> TRUE, reason |-> "Rate limiting not configured"]
    ELSE LET recent == _get_recent_notifications(table, user_id, current_time, ok)
             hourly_count ==
                Cardinality({ n \in recent : current_time - n.timestamp <= HourSeconds })
         IN IF hourly_count >= max_notifications_per_hour
            THEN [can_send |-> FALSE, reason |-> "Hourly rate limit exceeded"]
            ELSE IF DailyCheck(recent, current_time)
            THEN [can_send |-> FALSE, reason |-> "Daily rate limit exceeded"]
            ELSE IF SpacingCheck(recent, current_time).denied
            THEN [can_send |-> FALSE, reason |-> "Too soon since last notification"]
            ELSE [can_send |-> TRUE, reason |-> "User can receive notifications"]

\* Table.put_item of a notification row: the key is
\* snapshot_id = notification_{user_id}_{timestamp}, and a row of that key is replaced
put_item(table, item) ==
    { n \in table : ~(n.user_id = item.user_id /\ n.timestamp = item.timestamp) } \cup {item}

\* record_sent_notification reporting success without writing the row
record_sent_notification_skipped(e, table, preferences, content, message_id, timestamp, ok) ==
    [table |-> table, saved |-> TRUE]

\* record_sent_notification: the notification rows after the call and the value
\* returned.  Without a table nothing is written and True is returned; a put
\* that raises is caught, logged, and False is returned
record_sent_notification(e, table, preferences, content, message_id, timestamp, ok) ==
    IF ~e.FORECAST_HISTORY_TABLE THEN [table |-> table, saved |-> TRUE]
    ELSE IF ~ok THEN [table |-> table, saved |-> FALSE]
    ELSE [table |-> put_item(table, [user_id |-> preferences.user_id,
                                     team_name |-> preferences.team_name,
                                     notification_type |-> content.notification_type,
                                     timestamp |-> timestamp,
                                     message_id |-> message_id,
                                     content_hash |-> _generate_content_hash(content)]),
          saved |-> TRUE]

----------------------------------------------------------------------------
(* push_notification_service.py *)

\* send_push_notification: without a push token nothing is attempted; otherwise
\* the platform accepts the message (accepted) and assigns it message_id, or the
\* endpoint resolution or the publish fails
send_push_notification(preferences, content, accepted, message_id) ==
    IF ~preferences.push_token
    THEN [success |-> FALSE, message_id |-> 0]
    ELSE IF accepted
    THEN [success |-> TRUE, message_id |-> message_id]
    ELSE [success |-> FALSE, message_id |-> 0]

----------------------------------------------------------------------------
(* notification_logic.py: the orchestrator *)

\* What the environment does to the calls of one operation: whether the handler
\* fetches the table, calculates the forecast and stores it, whether each
\* further store call succeeds, whether generate_position_change_notification returns a
\* content or raises, whether the push platform accepts a message, and the
\* seconds that pass between a rate-limit check and the record of the send
Smooth == [fetched |-> TRUE, save |-> TRUE, latestRead |-> TRUE, prefsScan |-> TRUE, rlRead |-> TRUE,
           generation |-> TRUE, accepted |-> TRUE, rlWrite |-> TRUE, latency |-> 0]

\* all goes well, or one call fails, or the send takes a second; or the snapshot
\* save fails and the content generation raises (a handler compares the new
\* forecast with the snapshot of an earlier one only when its own save failed)
Outcomes ==
    { Smooth,
      [Smooth EXCEPT !.fetched = FALSE],
      [Smooth EXCEPT !.save = FALSE],
      [Smooth EXCEPT !.latestRead = FALSE],
      [Smooth EXCEPT !.prefsScan = FALSE],
      [Smooth EXCEPT !.rlRead = FALSE],
      [Smooth EXCEPT !.generation = FALSE],
      [Smooth EXCEPT !.save = FALSE, !.generation = FALSE],
      [Smooth EXCEPT !.accepted = FALSE],
      [Smooth EXCEPT !.rlWrite = FALSE],
      [Smooth EXCEPT !.latency = 1] }

\* the outcomes in which every store call succeeds
StoreReachable(o) == o.save /\ o.latestRead /\ o.prefsScan /\ o.rlRead /\ o.rlWrite

\* the calls an invocation makes on the stores and on the push platform, in
\* order: the operation and the key, table or user it names
StoreCall(call, key) == [call |-> call, key |-> key]

\* forecast_history.py line 100: the key of the latest row
latest_key == "latest-2024-25"

\* notification_rate_limiter.py line 159: the key of a notification row
notification_key(user_id, timestamp) ==
    "notification_" \o user_id \o "_" \o ToString(timestamp)

\* the calls of _send_immediate_notification: the publish for a user with a
\* token, and the put of the record after a send with a history table
send_calls(e, preferences, success, timestamp) ==
    (IF preferences.push_token THEN <<StoreCall("publish", preferences.user_id)>> ELSE <<>>)
    \o (IF success /\ e.FORECAST_HISTORY_TABLE
        THEN <<StoreCall("put_item", notification_key(preferences.user_id, timestamp))>>
        ELSE <<>>)

\* get_latest_snapshot reading the latest row a second time
get_item_latest_twice(e, st) ==
    IF e.FORECAST_HISTORY_TABLE
    THEN [st EXCEPT !.store_calls = @ \o <<StoreCall("get_item", latest_key),
                                           StoreCall("get_item", latest_key)>>]
    ELSE st

\* the one get_item of get_latest_snapshot, made when a history table is named
get_item_latest(e, st) ==
    IF e.FORECAST_HISTORY_TABLE
    THEN [st EXCEPT !.store_calls = Append(@, StoreCall("get_item", latest_key))]
    ELSE st

\* _should_notify_user without the sensitivity filter
_should_notify_user_always(preferences, change, previous_snapshot, new_snapshot) == TRUE

\* _should_notify_user
_should_notify_user(preferences, change, previous_snapshot, new_snapshot) ==
    IF preferences.notification_sensitivity = "any_change" THEN TRUE
    ELSE is_significant_change(change, previous_snapshot, new_snapshot)

\* _get_all_user_preferences: a scan that raises yields the empty list
_get_all_user_preferences(ok) == IF ok THEN ScanOrder ELSE <<>>

\* _send_immediate_notification recording whatever the send returned
_send_immediate_notification_always(e, st, preferences, content, o) ==
    LET r == send_push_notification(preferences, content, o.accepted,
                                    Cardinality(st.published) + 1)
        rec == record_sent_notification(e, st.notifications, preferences, content,
                                        r.message_id, st.now + o.latency, o.rlWrite)
    IN [st EXCEPT
          !.published = IF r.success
                        THEN @ \cup {[user_id |-> preferences.user_id,
                                      message_id |-> r.message_id,
                                      notification_type |-> content.notification_type,
                                      timestamp |-> st.now + o.latency]}
                        ELSE @,
          !.now = @ + o.latency,
          !.notifications = rec.table,
          !.store_calls = @ \o send_calls(e, preferences, TRUE, st.now + o.latency),
          !.record_errors = IF rec.saved THEN @ ELSE @ \cup {preferences.user_id},
          !.sent = IF r.success
                   THEN @ \cup {[user_id |-> preferences.user_id,
                                 message_id |-> r.message_id,
                                 timestamp |-> st.now + o.latency,
                                 title |-> content.title,
                                 body |-> content.body]}
                   ELSE @,
          !.notified = IF r.success
                       THEN @ \cup {[user_id |-> preferences.user_id,
                                     team_name |-> content.team_name]}
                       ELSE @,
          !.notifications_sent = IF r.success THEN @ + 1 ELSE @]

\* _send_immediate_notification: send, and record the send when it succeeded; the
\* value record_sent_notification returns is not looked at (record_errors keeps
\* the users whose record was logged as failed)
_send_immediate_notification(e, st, preferences, content, o) ==
    LET r == send_push_notification(preferences, content, o.accepted,
                                    Cardinality(st.published) + 1)
        rec == record_sent_notification(e, st.notifications, preferences, content,
                                        r.message_id, st.now + o.latency, o.rlWrite)
    IN IF r.success
       THEN [st EXCEPT
               !.published = @ \cup {[user_id |-> preferences.user_id,
                                      message_id |-> r.message_id,
                                      notification_type |-> content.notification_type,
                                      timestamp |-> st.now + o.latency]},
               !.now = @ + o.latency,
               !.notifications = rec.table,
               !.store_calls = @ \o send_calls(e, preferences, TRUE, st.now + o.latency),
               !.record_errors = IF rec.saved THEN @ ELSE @ \cup {preferences.user_id},
               !.sent = @ \cup {[user_id |-> preferences.user_id,
                                 message_id |-> r.message_id,
                                 timestamp |-> st.now + o.latency,
                                 title |-> content.title,
                                 body |-> content.body]},
               !.notified = @ \cup {[user_id |-> preferences.user_id,
                                     team_name |-> content.team_name]},
               !.notifications_sent = @ + 1]
       ELSE [st EXCEPT !.store_calls = @ \o send_calls(e, preferences, FALSE, st.now)]

\* _queue_end_of_day_notification: logs the notification and reports it queued
_queue_end_of_day_notification(st, preferences, content) ==
    [st EXCEPT !.queued = @ \cup {preferences.user_id},
               !.notified = @ \cup {[user_id |-> preferences.user_id,
                                     team_name |-> content.team_name]},
               !.notifications_sent = @ + 1]

\* every change is taken for a change of the user's team
user_team_changes_of_any_team(position_changes, preferences) == position_changes

\* lines 77-80: the changes of the team the user tracks, the names compared in
\* lower case
user_team_changes(position_changes, preferences) ==
    { c \in position_changes : lower(c.team_name) = lower(preferences.team_name) }

\* lines 72-110 for one user of the scan.  Nothing in the loop catches an
\* exception: once a call has raised (st.raised) the loop is left, and the
\* exception reaches the caller of process_forecast_update.
ProcessUser(e, st, preferences, position_changes, current_snapshot, new_snapshot, context, o) ==
    LET team_changes == user_team_changes(position_changes, preferences)
    IN IF st.raised THEN st
       ELSE IF ~preferences.enabled \/ team_changes = {} THEN st
       ELSE LET change == CHOOSE c \in team_changes : TRUE
                counted == [st EXCEPT !.notifications_processed = @ + 1]
            IN IF ~_should_notify_user(preferences, change, current_snapshot, new_snapshot)
               THEN counted
               ELSE IF ~o.generation THEN [counted EXCEPT !.raised = TRUE]
               ELSE LET content == generate_position_change_notification(change, context)
                        d == can_send_notification(e, counted.notifications,
                                                   preferences.user_id, counted.now,
                                                   content, o.rlRead)
                        decided == [counted EXCEPT
                                      !.decisions[preferences.user_id] = d.reason,
                                      !.store_calls =
                                          IF e.FORECAST_HISTORY_TABLE
                                          THEN Append(@, StoreCall("scan", "notification_"))
                                          ELSE @]
                    IN IF ~d.can_send THEN decided
                       ELSE IF preferences.notification_timing = "immediate"
                       THEN _send_immediate_notification(e, decided, preferences, content, o)
                       ELSE _queue_end_of_day_notification(decided, preferences, content)

RECURSIVE ProcessUsers(_, _, _, _, _, _, _, _)
\* the loop of line 72 over the users, in scan order
ProcessUsers(e, st, users, position_changes, current_snapshot, new_snapshot, context, o) ==
    IF users = <<>> THEN st
    ELSE ProcessUsers(e,
                      ProcessUser(e, st, UserNotificationPreferences[Head(users)],
                                  position_changes, current_snapshot, new_snapshot, context, o),
                      Tail(users), position_changes, current_snapshot, new_snapshot, context, o)

\* the state a call of process_forecast_update starts from
StartOfCall(table, pub, t) ==
    [notifications |-> table, published |-> pub, now |-> t,
     message |-> "", position_changes |-> {}, user_preferences |-> <<>>, raised |-> FALSE,
     decisions |-> [u \in UserIds |-> "not evaluated"],
     current_snapshot |-> {}, store_calls |-> <<>>,
     sent |-> {}, queued |-> {}, notified |-> {}, record_errors |-> {},
     notifications_processed |-> 0, notifications_sent |-> 0]

\* the return without a previous snapshot, counted as a notification sent
no_previous_history_counted(st) ==
    [st EXCEPT !.message = "No previous history for comparison", !.notifications_sent = 1]

\* lines 47-49: the return without a previous snapshot
no_previous_history(st) ==
    [st EXCEPT !.message = "No previous history for comparison", !.notifications_sent = 0]

\* process_forecast_update: the stores, the clock and the summary after the call
process_forecast_update(e, row, table, pub, t, forecast_data, context, o) ==
    LET start == StartOfCall(table, pub, t)
        st == get_item_latest(e, start)
        current_snapshot == get_latest_snapshot(e, row, o.latestRead)
    IN IF ~e.USER_PREFERENCES_TABLE
       THEN [start EXCEPT !.message = "Preferences table not configured"]
       ELSE IF current_snapshot = {}
       THEN no_previous_history(st)
       ELSE LET previous == CHOOSE x \in current_snapshot : TRUE
                new_snapshot == _create_snapshot_from_data(forecast_data, context, t)
                position_changes == detect_position_changes(previous, new_snapshot)
            IN IF position_changes = {}
               THEN [st EXCEPT !.message = "No position changes detected",
                               !.current_snapshot = current_snapshot]
               ELSE LET user_preferences == _get_all_user_preferences(o.prefsScan)
                        done == ProcessUsers(e, [st EXCEPT
                                                    !.current_snapshot = current_snapshot,
                                                    !.store_calls =
                                                        Append(@, StoreCall("scan", "preferences")),
                                                    !.position_changes = position_changes,
                                                    !.user_preferences = user_preferences],
                                             user_preferences, position_changes,
                                             previous, new_snapshot, context, o)
                    IN [done EXCEPT !.message = IF done.raised THEN "raised"
                                                ELSE "Processed"]

----------------------------------------------------------------------------
(* The operations *)

\* the clock advances
Tick(D) ==
    /\ \E d \in D : now' = now + d
    /\ result' = [op |-> "tick"]
    /\ UNCHANGED <<env, history, latest, notifications, published>>

\* the context of the saved snapshot and the context handed to
\* process_forecast_update, per handler
HandlerContexts ==
    [scheduled |-> [save |-> "Scheduled update", process |-> "Scheduled update"],
     live |-> [save |-> "Live match update - Arsenal vs Chelsea",
               process |-> "after Arsenal vs Chelsea"]]

\* what an operation of the orchestrator was given, returned and logged
Summary(op, forecast_data, p) ==
    [op |-> op,
     forecast_data |-> forecast_data,
     message |-> p.message,
     position_changes |-> p.position_changes,
     user_preferences |-> p.user_preferences,
     raised |-> p.raised,
     current_snapshot |-> p.current_snapshot,
     store_calls |-> p.store_calls,
     decisions |-> p.decisions,
     sent |-> p.sent,
     queued |-> p.queued,
     notified |-> p.notified,
     record_errors |-> p.record_errors,
     notifications_processed |-> p.notifications_processed,
     notifications_sent |-> p.notifications_sent]

\* the statusCode answered although process_forecast_update raised
statusCodeUnlessRaised(fetched, raised) == IF fetched /\ ~raised THEN 200 ELSE 500

\* the statusCode of the handler's response: the excepts around the snapshot save
\* and around process_forecast_update swallow their exceptions, the outer
\* except answers 500
statusCode(fetched, raised) == IF fetched THEN 200 ELSE 500

\* scheduled_data_fetcher.lambda_handler and live_match_fetcher's handlers:
\* fetch, calculate and store the forecast (an exception ends the handler with
\* 500), save the snapshot (errors caught), then process the notifications
\* (errors caught), and answer 200.  stored is what store_data wrote, snapshot
\* what save_forecast_snapshot returned.
LambdaHandler(kind, forecast_data, o) ==
    IF ~o.fetched
    THEN /\ result' = Summary("lambda_handler", forecast_data,
                              StartOfCall(notifications, published, now))
                      @@ [statusCode |-> statusCode(FALSE, FALSE), stored |-> {},
                          snapshot |-> {}]
         /\ UNCHANGED <<env, now, history, latest, notifications, published>>
    ELSE LET saved == save_forecast_snapshot(env, history, latest, forecast_data,
                                             HandlerContexts[kind].save, now, o.save)
             p == process_forecast_update(env, saved.latest, notifications, published, now,
                                          forecast_data, HandlerContexts[kind].process, o)
         IN /\ history' = saved.history
            /\ latest' = saved.latest
            /\ notifications' = p.notifications
            /\ published' = p.published
            /\ now' = p.now
            /\ result' = Summary("lambda_handler", forecast_data, p)
                         @@ [statusCode |-> statusCode(TRUE, p.raised),
                             stored |-> {forecast_data},
                             snapshot |-> saved.snapshot]
            /\ UNCHANGED env

\* NotificationManager.process_forecast_update called on its own
ProcessForecastUpdate(context, forecast_data, o) ==
    LET p == process_forecast_update(env, latest, notifications, published, now,
                                     forecast_data, context, o)
    IN /\ notifications' = p.notifications
       /\ published' = p.published
       /\ now' = p.now
       /\ result' = Summary("process_forecast_update", forecast_data, p)
       /\ UNCHANGED <<env, history, latest>>

\* send_test_notification that lets the rate limiter block the test
SendTestNotificationBlocked(user_id, o) ==
    /\ IF ~env.USER_PREFERENCES_TABLE \/ ~o.prefsScan
       THEN /\ result' = [op |-> "send_test_notification", user_id |-> user_id,
                          success |-> FALSE, message_id |-> 0,
                          rate_limit |-> "not evaluated", accepted |-> FALSE,
                          record_saved |-> FALSE]
            /\ UNCHANGED <<now, notifications, published>>
       ELSE LET preferences == UserNotificationPreferences[user_id]
                test_content == generate_test_notification(preferences)
                d == can_send_notification_by_user_id(env, notifications, user_id, now,
                                                      o.rlRead)
                r == IF d.can_send
                     THEN send_push_notification(preferences, test_content, o.accepted,
                                                 Cardinality(published) + 1)
                     ELSE [success |-> FALSE, message_id |-> 0]
                rec == record_sent_notification(env, notifications, preferences,
                                                test_content, r.message_id,
                                                now + o.latency, o.rlWrite)
            IN /\ published' = IF r.success
                               THEN published \cup
                                    {[user_id |-> user_id, message_id |-> r.message_id,
                                      notification_type |-> "test",
                                      timestamp |-> now + o.latency]}
                               ELSE published
               /\ notifications' = IF r.success THEN rec.table ELSE notifications
               /\ now' = IF r.success THEN now + o.latency ELSE now
               /\ result' = [op |-> "send_test_notification", user_id |-> user_id,
                             success |-> r.success, message_id |-> r.message_id,
                             rate_limit |-> d.reason, accepted |-> o.accepted,
                             record_saved |-> r.success /\ rec.saved]
    /\ UNCHANGED <<env, history, latest>>

\* NotificationManager.send_test_notification: the limiter is asked and its answer
\* is logged only.  accepted (the answer of the platform) and record_saved are
\* kept beside the response for the properties.
SendTestNotification(user_id, o) ==
    /\ IF ~env.USER_PREFERENCES_TABLE \/ ~o.prefsScan
       THEN /\ result' = [op |-> "send_test_notification", user_id |-> user_id,
                          success |-> FALSE, message_id |-> 0,
                          rate_limit |-> "not evaluated", accepted |-> FALSE,
                          record_saved |-> FALSE]
            /\ UNCHANGED <<now, notifications, published>>
       ELSE LET preferences == UserNotificationPreferences[user_id]
                test_content == generate_test_notification(preferences)
                d == can_send_notification_by_user_id(env, notifications, user_id, now,
                                                      o.rlRead)
                r == send_push_notification(preferences, test_content, o.accepted,
                                            Cardinality(published) + 1)
                rec == record_sent_notification(env, notifications, preferences,
                                                test_content, r.message_id,
                                                now + o.latency, o.rlWrite)
            IN /\ published' = IF r.success
                               THEN published \cup
                                    {[user_id |-> user_id, message_id |-> r.message_id,
                                      notification_type |-> "test",
                                      timestamp |-> now + o.latency]}
                               ELSE published
               /\ notifications' = IF r.success THEN rec.table ELSE notifications
               /\ now' = IF r.success THEN now + o.latency ELSE now
               /\ result' = [op |-> "send_test_notification", user_id |-> user_id,
                             success |-> r.success, message_id |-> r.message_id,
                             rate_limit |-> d.reason, accepted |-> o.accepted,
                             record_saved |-> r.success /\ rec.saved]
    /\ UNCHANGED <<env, history, latest>>

\* NotificationRateLimiter.can_send_notification called on its own
CanSendNotification(user_id, content, ok) ==
    /\ LET d == can_send_notification(env, notifications, user_id, now, content, ok)
       IN result' = [op |-> "can_send_notification", user_id |-> user_id,
                     content |-> content, read_ok |-> ok,
                     can_send |-> d.can_send, reason |-> d.reason, wait |-> d.wait]
    /\ UNCHANGED <<env, now, history, latest, notifications, published>>

----------------------------------------------------------------------------
(* The behaviours explored *)

EnvConfigs == [FORECAST_HISTORY_TABLE : BOOLEAN, USER_PREFERENCES_TABLE : BOOLEAN]

Configured == [FORECAST_HISTORY_TABLE |-> TRUE, USER_PREFERENCES_TABLE |-> TRUE]

\* the forecast in which Arsenal is forecasted at the position
ForecastWithArsenalAt(position) ==
    CHOOSE f \in ForecastData : f["Arsenal"].forecasted_position = position

\* The update cycles of the regular period: a handler stored the forecast with
\* Arsenal at from, and the next forecast has Arsenal at to
PriorMoves ==
    << [from |-> 5, to |-> 4, kind |-> "scheduled"],
       [from |-> 4, to |-> 5, kind |-> "live"],
       [from |-> 5, to |-> 1, kind |-> "scheduled"],
       [from |-> 1, to |-> 4, kind |-> "live"],
       [from |-> 4, to |-> 1, kind |-> "scheduled"],
       [from |-> 1, to |-> 5, kind |-> "live"],
       [from |-> 5, to |-> 4, kind |-> "live"] >>

PriorMove(n) == PriorMoves[(n % Len(PriorMoves)) + 1]

Free == 0 - 1

\* the handlers that call save_forecast_snapshot, and none of them in the call
Savers == {"scheduled", "live"}

NoSaves == [p \in Savers |-> [pc |-> "idle"]]

\* the invocations of process_forecast_update that may run at the same time
Invocations == 1..MaxInvocations

NoCycles == [i \in Invocations |-> [pc |-> "idle"]]

Init ==
    /\ env \in EnvConfigs
    /\ now = 0
    /\ history = {}
    /\ latest = {}
    /\ notifications = {}
    /\ published = {}
    /\ result = [op |-> "init"]
    /\ script = IF env = Configured THEN 0 ELSE Free
    /\ period \in (IF env = Configured THEN PriorGaps ELSE {0})
    /\ endpoints = <<>>
    /\ ops = 0
    /\ ticks = 0
    /\ saves = NoSaves
    /\ cycles = NoCycles
    /\ rule = {}
    /\ preferences_table = PreferencesItems

\* The regular period: every period seconds a handler stores a forecast and
\* process_forecast_update runs on the next one, with every call succeeding
Regular ==
    /\ script # Free
    /\ script < 3 * MaxPrior
    /\ LET move == PriorMove(script \div 3)
       IN CASE script % 3 = 0 ->
                 LambdaHandler("scheduled", ForecastWithArsenalAt(move.from), Smooth)
            [] script % 3 = 1 ->
                 ProcessForecastUpdate(HandlerContexts[move.kind].process,
                                       ForecastWithArsenalAt(move.to), Smooth)
            [] OTHER -> Tick({period})
    /\ script' = script + 1
    /\ UNCHANGED <<period, endpoints, ops, ticks, saves, cycles, rule, preferences_table>>

\* the regular period ends, after one of its update cycles
EndRegular ==
    /\ script # Free
    /\ script % 3 = 2 \/ script = 0
    /\ script' = Free
    /\ UNCHANGED <<env, now, history, latest, notifications, published, result, period, endpoints, ops,
                   ticks, saves, cycles, rule, preferences_table>>

\* after the regular period: any operation, with any outcome
Operation(A) ==
    /\ script = Free
    /\ ops < MaxOps
    /\ A
    /\ ops' = ops + 1
    /\ UNCHANGED <<script, period, endpoints, ticks, saves, cycles, rule, preferences_table>>

Wait(D) ==
    /\ script = Free
    /\ ticks < MaxTicks
    /\ Tick(D)
    /\ ticks' = ticks + 1
    /\ UNCHANGED <<script, period, endpoints, ops, saves, cycles, rule, preferences_table>>

Handler(O) ==
    \E kind \in DOMAIN HandlerContexts, f \in ForecastData, o \in O :
        Operation(LambdaHandler(kind, f, o))

Process(O) ==
    \E kind \in DOMAIN HandlerContexts, f \in ForecastData, o \in O :
        Operation(ProcessForecastUpdate(HandlerContexts[kind].process, f, o))

Test(O) ==
    \E u \in UserIds, o \in O : Operation(SendTestNotification(u, o))

Next ==
    \/ Regular
    \/ EndRegular
    \/ Wait(Deltas)
    \/ Handler(Outcomes)
    \/ Process(Outcomes)
    \/ Test(Outcomes)

Spec == Init /\ [][Next]_vars

\* Update cycles only, one after the other, with every store call succeeding
\* and no test notification
NominalOutcomes == { o \in Outcomes : o.fetched /\ StoreReachable(o) /\ o.generation }

NextNominal ==
    \/ Regular
    \/ EndRegular
    \/ Wait(Deltas)
    \/ Handler(NominalOutcomes)
    \/ Process(NominalOutcomes)

SpecNominal == Init /\ [][NextNominal]_vars

\* The limiter called on its own, on a history of k records of u1 that lie gap
\* seconds apart, the last one written at StartTime, and one record of u2
ArsenalContent(from, to) ==
    LET changes == detect_position_changes(
                       _create_snapshot_from_data(ForecastWithArsenalAt(from),
                                                  "Scheduled update", 0),
                       _create_snapshot_from_data(ForecastWithArsenalAt(to),
                                                  "Scheduled update", 0))
    IN generate_position_change_notification(
           CHOOSE c \in changes : c.team_name = "Arsenal", "Scheduled update")

HistoryContents == << ArsenalContent(5, 4), ArsenalContent(4, 1), ArsenalContent(1, 5) >>

CheckedContents ==
    { HistoryContents[i] : i \in 1..Len(HistoryContents) } \cup { ArsenalContent(4, 5) }

History(k, gap) ==
    { [user_id |-> "u1",
       team_name |-> "Arsenal",
       notification_type |-> "position_change",
       timestamp |-> StartTime - gap * i,
       message_id |-> k - i,
       content_hash |-> _generate_content_hash(HistoryContents[(i % Len(HistoryContents)) + 1])]
      : i \in 0..(k - 1) }
    \cup
    { [user_id |-> "u2",
       team_name |-> "Chelsea",
       notification_type |-> "test",
       timestamp |-> StartTime,
       message_id |-> k + 1,
       content_hash |->
           _generate_content_hash(generate_test_notification(UserNotificationPreferences["u2"]))] }

InitLimiter ==
    /\ env \in { e \in EnvConfigs : e.USER_PREFERENCES_TABLE }
    /\ now = StartTime
    /\ history = {}
    /\ latest = {}
    /\ \E k \in 0..MaxHistory, gap \in HistoryGaps : notifications = History(k, gap)
    /\ published = { [user_id |-> n.user_id, message_id |-> n.message_id,
                      notification_type |-> n.notification_type,
                      timestamp |-> n.timestamp] : n \in notifications }
    /\ result = [op |-> "init"]
    /\ script = Free
    /\ period = 0
    /\ endpoints = <<>>
    /\ ops = 0
    /\ ticks = 0
    /\ saves = NoSaves
    /\ cycles = NoCycles
    /\ rule = {}
    /\ preferences_table = PreferencesItems

Check ==
    \E u \in {"u1", "u2"}, content \in CheckedContents, ok \in BOOLEAN :
        Operation(CanSendNotification(u, content, ok))

NextLimiter ==
    \/ Wait(LimiterDeltas)
    \/ Check

SpecLimiter == InitLimiter /\ [][NextLimiter]_vars

----------------------------------------------------------------------------
(* The update cycle of the handlers *)

\* the cycle got as far as detect_position_changes
Detected(r) ==
    /\ r.op \in {"lambda_handler", "process_forecast_update"}
    /\ r.message \in {"No position changes detected", "Processed"}

\* the teams whose forecasted position in the cycle's forecast differs from their
\* position in the snapshot
Moved(snapshot, forecast_data) ==
    { t \in TeamsOf(forecast_data) :
        \E p \in get_team_position(snapshot, t) :
            p.position # forecast_data[t].forecasted_position }

\* C1: in an update cycle of a handler (save_forecast_snapshot(new), then
\* process_forecast_update(new)), every team whose forecasted position in the
\* cycle's forecast differs from its position in the snapshot that was the latest
\* one before the cycle gets a PositionChange from detect_position_changes.
C1_ChangesAgainstSnapshotBeforeCycle ==
    [][ ( /\ ops' # ops \/ (script' # script /\ script' # Free)
          /\ result'.op = "lambda_handler"
          /\ Detected(result')
          /\ latest # {} )
        => \A prev \in latest : \A t \in Moved(prev, result'.forecast_data) :
              \E c \in result'.position_changes : c.team_name = t ]_vars

----------------------------------------------------------------------------
(* The rate limits, stated on the stored records *)

RecordsOf(u) == { n \in notifications : n.user_id = u }

\* the records of u written in the w seconds up to t
SendsWithin(u, t, w) ==
    { n \in RecordsOf(u) : 0 <= t - n.timestamp /\ t - n.timestamp <= w }

LastSend(u) == Max({ n.timestamp : n \in RecordsOf(u) })

HourlyFails(u) ==
    /\ Cardinality(SendsWithin(u, now, HourSeconds)) >= max_notifications_per_hour
    /\ now - LastSend(u) < cooldown_after_burst

DailyFails(u) == Cardinality(SendsWithin(u, now, DaySeconds)) >= max_notifications_per_day

SpacingFails(u) ==
    /\ RecordsOf(u) # {}
    /\ now - LastSend(u) < min_time_between_notifications

DuplicateFails(u, content) ==
    \E n \in RecordsOf(u) :
        /\ n.content_hash = _generate_content_hash(content)
        /\ now - n.timestamp < duplicate_content_window

\* can_send_notification was called on its own, with a table, and read the records
Evaluated(r) ==
    /\ r.op = "can_send_notification"
    /\ env.FORECAST_HISTORY_TABLE
    /\ r.read_ok

\* an update cycle evaluated the limiter for u
Decided(r, u) ==
    /\ r.op \in {"lambda_handler", "process_forecast_update"}
    /\ r.decisions[u] # "not evaluated"

\* the step is an update cycle that evaluated the limiter for u
Decides(u) ==
    /\ ops' # ops \/ (script' # script /\ script' # Free)
    /\ Decided(result', u)

FirstFailing(u, content) ==
    IF HourlyFails(u) THEN "Rate limit exceeded. Cooldown"
    ELSE IF DailyFails(u) THEN "Daily notification limit exceeded"
    ELSE IF SpacingFails(u) THEN "Too soon since last notification"
    ELSE IF DuplicateFails(u, content) THEN "Duplicate notification content within window"
    ELSE "Notification allowed"

SameContent(u, content) ==
    { n \in RecordsOf(u) : n.content_hash = _generate_content_hash(content) }

ReachedHourlyCap(u) ==
    \E n0 \in RecordsOf(u) :
        Cardinality(SendsWithin(u, n0.timestamp, HourSeconds)) >= max_notifications_per_hour

C8_FailOpenReportsFailure ==
    (result.op = "can_send_notification" /\ env.FORECAST_HISTORY_TABLE /\ ~result.read_ok)
        => /\ result.can_send
           /\ result.reason = "Rate limiting check failed"

\* C9: every record was written after a successful send to its user and carries
\* the message id of that send; a denied, failed or queued notification leaves no
\* record (each record has its accepted publish, and a position_change record
\* belongs to a user with IMMEDIATE timing).
C9_RecordsFollowSends ==
    \A n \in notifications :
        /\ \E p \in published : /\ p.user_id = n.user_id
                                /\ p.message_id = n.message_id
                                /\ p.timestamp = n.timestamp
                                /\ p.notification_type = n.notification_type
        /\ n.notification_type = "position_change"
           => UserNotificationPreferences[n.user_id].notification_timing = "immediate"

\* a cycle that sent to one user and queued for another, who has no record
C9_SentAndQueued ==
    /\ Decided(result, "u1")
    /\ \E x \in result.sent : x.user_id = "u1"
    /\ "u2" \in result.queued
    /\ RecordsOf("u1") # {}
    /\ RecordsOf("u2") = {}

\* the send x of the last cycle has its record
Recorded(x) ==
    \E n \in notifications : /\ n.user_id = x.user_id
                             /\ n.timestamp = x.timestamp
                             /\ n.message_id = x.message_id

----------------------------------------------------------------------------
(* One update cycle on a store that holds a snapshot and no record of a send *)

\* the contexts process_forecast_update is called with
Contexts == {"Arsenal vs Chelsea", "after Arsenal vs Chelsea", " Arsenal vs Chelsea ", ""}

\* the calls of the cycle succeed, at once or after a second
DeliveredOutcomes == { o \in Outcomes : StoreReachable(o) /\ o.generation /\ o.accepted }

InitCycle ==
    /\ env \in EnvConfigs
    /\ now = StartTime
    /\ \E f \in ForecastData :
          LET saved == save_forecast_snapshot(env, {}, {}, f, "Scheduled update", 0, TRUE)
          IN history = saved.history /\ latest = saved.latest
    /\ notifications = {}
    /\ published = {}
    /\ result = [op |-> "init"]
    /\ script = Free
    /\ period = 0
    /\ endpoints = <<>>
    /\ ops = 0
    /\ ticks = 0
    /\ saves = NoSaves
    /\ cycles = NoCycles
    /\ rule = {}
    /\ preferences_table = PreferencesItems

Cycle ==
    \E context \in Contexts, f \in ForecastData, o \in DeliveredOutcomes :
        Operation(ProcessForecastUpdate(context, f, o))

NextCycle ==
    \/ Wait(Deltas)
    \/ Cycle

SpecCycle == InitCycle /\ [][NextCycle]_vars

\* str.__contains__
Contains(text, part) ==
    \E i \in 1..(Len(text) - Len(part) + 1) : SubSeq(text, i, i + Len(part) - 1) = part

\* the stored snapshot has Arsenal 5th with 50.0 points, and the cycle got the
\* forecast with Arsenal 4th with 53.0 points under the context
ArsenalFifthToFourth(row, r, context) ==
    /\ r.op = "process_forecast_update"
    /\ \E s \in row : s.teams["Arsenal"].position = 5 /\ s.teams["Arsenal"].points = 500
    /\ r.forecast_data["Arsenal"] = [forecasted_position |-> 4, forecasted_points |-> 530]
    /\ \A c \in r.position_changes : c.change_context = context

\* the notification the cycle sent to the user names the Champions League in
\* the title and the move, the points and the context in the body
ChampionsLeagueMessage(x) ==
    /\ Contains(x.title, "Champions League")
    /\ Contains(x.body, "moved up from 5th to 4th")
    /\ Contains(x.body, "(+3.0 points)")
    /\ Contains(x.body, "after Arsenal vs Chelsea")

\* C12: with Arsenal stored 5th with 50.0 points and no send recorded for u1
\* (enabled, IMMEDIATE, ANY_CHANGE, tracking Arsenal), process_forecast_update
\* on Arsenal 4th with 53.0 points and context "Arsenal vs Chelsea" publishes
\* exactly one message to u1, whose title contains "Champions League" and whose
\* body contains "moved up from 5th to 4th", "(+3.0 points)" and
\* "after Arsenal vs Chelsea".
C12_FifthToFourthSendsOne ==
    [][ ( /\ ops' # ops
          /\ env = Configured
          /\ RecordsOf("u1") = {}
          /\ ArsenalFifthToFourth(latest, result', "Arsenal vs Chelsea") )
        => /\ Cardinality({ m \in published' \ published : m.user_id = "u1" }) = 1
           /\ Cardinality({ x \in result'.sent : x.user_id = "u1" }) = 1
           /\ \A x \in result'.sent : x.user_id = "u1" => ChampionsLeagueMessage(x) ]_vars

\* the cycle on Arsenal's move from 5th to 4th under "Arsenal vs Chelsea" has
\* sent u1 the message
C12_MessageSent ==
    /\ result.op = "process_forecast_update"
    /\ \E c \in result.position_changes :
          /\ c.team_name = "Arsenal"
          /\ c.previous_position = 5 /\ c.new_position = 4
          /\ c.previous_points = 500 /\ c.new_points = 530
          /\ c.change_context = "Arsenal vs Chelsea"
    /\ Cardinality(published) = 1
    /\ \E x \in result.sent : x.user_id = "u1" /\ ChampionsLeagueMessage(x)

----------------------------------------------------------------------------
(* Failures inside the loop over the users *)

\* the users of the scan that are enabled and whose team has a change: the
\* candidates of lines 72-86
Candidates(r) ==
    { u \in { r.user_preferences[i] : i \in 1..Len(r.user_preferences) } :
        /\ UserNotificationPreferences[u].enabled
        /\ \E c \in r.position_changes :
              lower(c.team_name) = lower(UserNotificationPreferences[u].team_name) }

\* C13: a failure while one user's candidate is processed (the content
\* generation raises, or the delivery fails) does not end the loop: every
\* candidate of the cycle is counted as processed, and notifications_sent
\* counts the sent and the queued ones only.
C13_FailureContained ==
    (result.op \in {"lambda_handler", "process_forecast_update"}
     /\ result.position_changes # {})
    => /\ result.notifications_processed = Cardinality(Candidates(result))
       /\ result.notifications_sent
            = Cardinality(result.sent) + Cardinality(result.queued)

----------------------------------------------------------------------------
(* The response of the handlers *)

\* C14: a handler always answers with a status, and once the forecast is
\* fetched, calculated and stored it answers 200, whether or not the snapshot
\* was saved, process_forecast_update raised, or a delivery failed.
C14_HandlerAnswers ==
    result.op = "lambda_handler" =>
        /\ result.statusCode \in {200, 500}
        /\ result.stored # {} => /\ result.statusCode = 200
                                 /\ result.stored = {result.forecast_data}

\* a handler answered 200 with the forecast stored although the snapshot was not
\* saved and process_forecast_update raised
C14_AnsweredAlthoughRaised ==
    /\ result.op = "lambda_handler"
    /\ result.snapshot = {}
    /\ result.raised
    /\ result.stored = {result.forecast_data}
    /\ result.statusCode = 200

----------------------------------------------------------------------------
(* The rows of a saved snapshot *)

\* the item carries the timestamp, the teams and the context of the snapshot
Carries(item, snapshot) ==
    /\ item.timestamp = snapshot.timestamp
    /\ item.teams = snapshot.teams
    /\ item.context = snapshot.context

----------------------------------------------------------------------------
(* The history table under concurrent saves, and its readers *)

\* the timestamps get_snapshot_before_timestamp is asked for
BeforeTimestamps == {StartTime, StartTime + 1, StartTime + 2, StartTime + 301}

\* every item of the history table: the scan of get_snapshot_before_timestamp
\* has no condition on the key
HistoryTable == history \cup latest \cup notifications

\* save_forecast_snapshot lines 35-70 in handler p: the timestamp is read and
\* the item is built
BeginSave(p, forecast_data) ==
    /\ saves[p].pc = "idle"
    /\ env.FORECAST_HISTORY_TABLE
    /\ saves' = [saves EXCEPT ![p] =
                    [pc |-> "put_history",
                     item |-> snapshot_item(forecast_data, HandlerContexts[p].save, now)]]
    /\ result' = [op |-> "save_forecast_snapshot", handler |-> p, line |-> 70]
    /\ UNCHANGED <<env, now, history, latest, notifications, published, script, period, endpoints, ops,
                   ticks, cycles, rule, preferences_table>>

\* line 74 in handler p: the timestamped row is put
PutHistory(p) ==
    /\ saves[p].pc = "put_history"
    /\ history' = put_snapshot(history, saves[p].item)
    /\ saves' = [saves EXCEPT ![p].pc = "put_latest"]
    /\ result' = [op |-> "save_forecast_snapshot", handler |-> p, line |-> 74]
    /\ UNCHANGED <<env, now, latest, notifications, published, script, period, endpoints, ops, ticks,
                   cycles, rule, preferences_table>>

\* lines 77-82 in handler p: the copy is put as the latest row, and the call
\* returns
PutLatest(p) ==
    /\ saves[p].pc = "put_latest"
    /\ latest' = put_snapshot(latest, latest_item(saves[p].item))
    /\ saves' = [saves EXCEPT ![p] = [pc |-> "done"]]
    /\ result' = [op |-> "save_forecast_snapshot", handler |-> p, line |-> 82]
    /\ UNCHANGED <<env, now, history, notifications, published, script, period, endpoints, ops, ticks,
                   cycles, rule, preferences_table>>

\* record_sent_notification after a test notification to u1 was sent
RecordSentNotification ==
    /\ notifications = {}
    /\ LET preferences == UserNotificationPreferences["u1"]
           rec == record_sent_notification(env, notifications, preferences,
                                           generate_test_notification(preferences),
                                           Cardinality(published) + 1, now, TRUE)
       IN /\ notifications' = rec.table
          /\ published' = published \cup
                          {[user_id |-> "u1", message_id |-> Cardinality(published) + 1,
                            notification_type |-> "test", timestamp |-> now]}
          /\ result' = [op |-> "record_sent_notification", saved |-> rec.saved]
    /\ UNCHANGED <<env, now, history, latest, script, period, endpoints, ops, ticks, saves, cycles, rule, preferences_table>>

\* get_latest_snapshot called on its own
GetLatestSnapshot ==
    /\ result' = [op |-> "get_latest_snapshot",
                  snapshot |-> get_latest_snapshot(env, latest, TRUE)]
    /\ UNCHANGED <<env, now, history, latest, notifications, published>>

\* get_snapshot_before_timestamp called on its own
GetSnapshotBeforeTimestamp(before_timestamp) ==
    /\ \E snapshot \in get_snapshot_before_timestamp(env, HistoryTable, before_timestamp, TRUE) :
          result' = [op |-> "get_snapshot_before_timestamp",
                     before_timestamp |-> before_timestamp,
                     snapshot |-> snapshot]
    /\ UNCHANGED <<env, now, history, latest, notifications, published>>

InitHistory ==
    /\ env = Configured
    /\ now = StartTime
    /\ history = {}
    /\ latest = {}
    /\ notifications = {}
    /\ published = {}
    /\ result = [op |-> "init"]
    /\ script = Free
    /\ period = 0
    /\ endpoints = <<>>
    /\ ops = 0
    /\ ticks = 0
    /\ saves = NoSaves
    /\ cycles = NoCycles
    /\ rule = {}
    /\ preferences_table = PreferencesItems

Begin == \E p \in Savers, f \in ForecastData : BeginSave(p, f)

FirstPut == \E p \in Savers : PutHistory(p)

SecondPut == \E p \in Savers : PutLatest(p)

ReadLatest == Operation(GetLatestSnapshot)

ReadBefore == \E t \in BeforeTimestamps : Operation(GetSnapshotBeforeTimestamp(t))

NextHistory ==
    \/ Begin
    \/ FirstPut
    \/ SecondPut
    \/ RecordSentNotification
    \/ Wait({1, 300})
    \/ ReadLatest
    \/ ReadBefore

SpecHistory == InitHistory /\ [][NextHistory]_vars

\* no save_forecast_snapshot is under way
SavesCompleted == \A p \in Savers : saves[p].pc \in {"idle", "done"}

\* C16: once the concurrent calls of save_forecast_snapshot have completed, the
\* latest row carries the greatest timestamp of the timestamped rows:
\* get_latest_snapshot returns the most recent snapshot.
C16_LatestIsMostRecent ==
    (SavesCompleted /\ history # {}) =>
        \E l \in latest, h \in history :
            /\ \A x \in history : x.timestamp <= h.timestamp
            /\ l.timestamp = h.timestamp

\* C17: get_snapshot_before_timestamp(t) returns the snapshot of the
\* timestamped row with the greatest timestamp below t, and None only if there
\* is no such row.
C17_MostRecentBefore ==
    result.op = "get_snapshot_before_timestamp" =>
        LET before == { h \in history : h.timestamp < result.before_timestamp }
        IN IF before = {} THEN result.snapshot = {}
           ELSE \E h \in before :
                   /\ \A x \in before : x.timestamp <= h.timestamp
                   /\ result.snapshot = {_item_to_snapshot(h)}

----------------------------------------------------------------------------
(* The change detector and the classification on the whole league table *)

Sensitivities == {"any_change", "significant_only"}

\* a team's entry of forecast_data['teams'] at a position of the 20-team league
Standing(position) ==
    [forecasted_position |-> position, forecasted_points |-> 10 * (98 - 4 * position)]

\* forecasts with Arsenal anywhere in the table, with or without Chelsea
LeagueForecasts ==
    { [t \in T |-> Standing(IF t = "Arsenal" THEN a ELSE c)] :
        a \in 1..LeagueSize, c \in {4, 5}, T \in {{"Arsenal"}, {"Arsenal", "Chelsea"}} }

\* process_forecast_update lines 50-82 on the stored snapshot and a new forecast:
\* the changes detected, and for each the filter of line 82 under either
\* sensitivity and the classification the content is generated from
DetectPositionChanges(forecast_data) ==
    /\ latest # {}
    /\ LET previous == CHOOSE x \in get_latest_snapshot(env, latest, TRUE) : TRUE
           new_snapshot == _create_snapshot_from_data(forecast_data, "Scheduled update", now)
           position_changes == detect_position_changes(previous, new_snapshot)
       IN result' =
            [op |-> "detect_position_changes",
             previous_snapshot |-> previous,
             current_snapshot |-> new_snapshot,
             position_changes |-> position_changes,
             should_notify |->
                 [c \in position_changes |->
                     [s \in Sensitivities |->
                         _should_notify_user(
                             [UserNotificationPreferences["u1"]
                                 EXCEPT !.notification_sensitivity = s],
                             c, previous, new_snapshot)]],
             analysis |-> [c \in position_changes |-> _analyze_position_change(c)]]
    /\ UNCHANGED <<env, now, history, latest, notifications, published>>

InitChanges ==
    /\ env = Configured
    /\ now = StartTime
    /\ \E f \in LeagueForecasts :
          LET saved == save_forecast_snapshot(env, {}, {}, f, "Scheduled update", 0, TRUE)
          IN history = saved.history /\ latest = saved.latest
    /\ notifications = {}
    /\ published = {}
    /\ result = [op |-> "init"]
    /\ script = Free
    /\ period = 0
    /\ endpoints = <<>>
    /\ ops = 0
    /\ ticks = 0
    /\ saves = NoSaves
    /\ cycles = NoCycles
    /\ rule = {}
    /\ preferences_table = PreferencesItems

Detect == \E f \in LeagueForecasts : Operation(DetectPositionChanges(f))

NextChanges == Detect

SpecChanges == InitChanges /\ [][NextChanges]_vars

----------------------------------------------------------------------------
(* The change detector *)

\* the entries of the team among the changes
EntriesOf(r, team) == { c \in r.position_changes : c.team_name = team }

\* the team is in both snapshots, at different positions
PositionDiffers(r, team) ==
    /\ team \in DOMAIN r.previous_snapshot.teams
    /\ team \in DOMAIN r.current_snapshot.teams
    /\ r.previous_snapshot.teams[team].position # r.current_snapshot.teams[team].position

\* C18: detect_position_changes returns one entry for each team whose position
\* differs between the snapshots, with the positions and points of either
\* snapshot, and none for a team whose position is the same or that is in one
\* snapshot only.
C18_OneChangePerMovedTeam ==
    result.op = "detect_position_changes" =>
        /\ \A c \in result.position_changes : c.team_name \in Teams
        /\ \A team \in Teams :
              IF PositionDiffers(result, team)
              THEN /\ Cardinality(EntriesOf(result, team)) = 1
                   /\ \A c \in EntriesOf(result, team) :
                         /\ c.previous_position = result.previous_snapshot.teams[team].position
                         /\ c.new_position = result.current_snapshot.teams[team].position
                         /\ c.previous_points = result.previous_snapshot.teams[team].points
                         /\ c.new_points = result.current_snapshot.teams[team].points
              ELSE EntriesOf(result, team) = {}

\* snapshots of the same two teams: Arsenal moved and has its entry, Chelsea
\* stayed and has none
C18_OneMovedOneStayed ==
    /\ result.op = "detect_position_changes"
    /\ DOMAIN result.previous_snapshot.teams = Teams
    /\ DOMAIN result.current_snapshot.teams = Teams
    /\ PositionDiffers(result, "Arsenal")
    /\ ~PositionDiffers(result, "Chelsea")
    /\ Cardinality(result.position_changes) = 1
    /\ EntriesOf(result, "Arsenal") # {}

----------------------------------------------------------------------------
(* The classification of a change *)

\* the rules of the classification, in their order of priority: whether rule i
\* applies to the move from previous to new
RuleApplies(i, previous, new) ==
    CASE i = 1 -> previous # 1 /\ new = 1
      [] i = 2 -> previous = 1 /\ new # 1
      [] i = 3 -> previous > 4 /\ new <= 4
      [] i = 4 -> previous <= 4 /\ new > 4
      [] i = 5 -> previous > 7 /\ new <= 7
      [] i = 6 -> previous <= 7 /\ new > 7
      [] i = 7 -> previous < 18 /\ new >= 18
      [] i = 8 -> previous >= 18 /\ new < 18
      [] i = 9 -> new - previous >= 3 \/ previous - new >= 3
      [] OTHER -> TRUE

\* what rule i classifies the move as
RuleGives(i, previous, new) ==
    <<"title_gained", "title_lost", "champions_league_in", "champions_league_out",
      "europa_in", "europa_out", "relegation_in", "relegation_out",
      IF new < previous THEN "significant_up" ELSE "significant_down",
      IF new < previous THEN "minor_up" ELSE "minor_down">>[i]

RuleSignificance ==
    <<"high", "high", "high", "high", "medium", "medium", "high", "high", "medium", "low">>

\* the first rule that applies
FirstRule(previous, new) ==
    CHOOSE i \in 1..Len(RuleSignificance) :
        /\ RuleApplies(i, previous, new)
        /\ \A j \in 1..(i - 1) : ~RuleApplies(j, previous, new)

\* C19: every change is classified by the first rule of the priority list that
\* applies to it: title, Champions League at 4, Europa League at 7, relegation
\* at 18, then a move of three or more positions, else a minor move.
C19_FirstMatchingRule ==
    result.op = "detect_position_changes" =>
        \A c \in result.position_changes :
            LET i == FirstRule(c.previous_position, c.new_position)
            IN result.analysis[c] = <<RuleGives(i, c.previous_position, c.new_position),
                                     RuleSignificance[i]>>

\* a move of four positions that an earlier rule takes: Arsenal from 10th to
\* 6th is classified by the Europa League rule
C19_EuropaBeforeDistance ==
    /\ result.op = "detect_position_changes"
    /\ \E c \in result.position_changes :
          /\ c.previous_position = 10
          /\ c.new_position = 6
          /\ FirstRule(10, 6) = 5
          /\ RuleApplies(9, 10, 6)
          /\ result.analysis[c] = <<"europa_in", "medium">>

\* the class the change of Arsenal from previous to new was given, if detected
ClassifiedAs(previous, new, class) ==
    \A c \in result.position_changes :
        (c.team_name = "Arsenal" /\ c.previous_position = previous /\ c.new_position = new)
        => result.analysis[c] = class

\* C20 (as amended): 2->1 is title_gained/high, 1->2 title_lost/high, 5->4
\* champions_league_in/high, 7->8 europa_out/medium, 17->18 relegation_in/high,
\* 18->17 relegation_out/high, 10->6 europa_in/medium and 9->8 minor_up/low.
C20_BoundaryExamplesWithEuropa ==
    result.op = "detect_position_changes" =>
        /\ ClassifiedAs(2, 1, <<"title_gained", "high">>)
        /\ ClassifiedAs(1, 2, <<"title_lost", "high">>)
        /\ ClassifiedAs(5, 4, <<"champions_league_in", "high">>)
        /\ ClassifiedAs(7, 8, <<"europa_out", "medium">>)
        /\ ClassifiedAs(17, 18, <<"relegation_in", "high">>)
        /\ ClassifiedAs(18, 17, <<"relegation_out", "high">>)
        /\ ClassifiedAs(10, 6, <<"europa_in", "medium">>)
        /\ ClassifiedAs(9, 8, <<"minor_up", "low">>)

\* C20 as stated: 7->8 is champions_league_out/high and 10->6 is
\* significant_up/medium, the other six as above.
C20_BoundaryExamples ==
    result.op = "detect_position_changes" =>
        /\ ClassifiedAs(2, 1, <<"title_gained", "high">>)
        /\ ClassifiedAs(1, 2, <<"title_lost", "high">>)
        /\ ClassifiedAs(5, 4, <<"champions_league_in", "high">>)
        /\ ClassifiedAs(7, 8, <<"champions_league_out", "high">>)
        /\ ClassifiedAs(17, 18, <<"relegation_in", "high">>)
        /\ ClassifiedAs(18, 17, <<"relegation_out", "high">>)
        /\ ClassifiedAs(10, 6, <<"significant_up", "medium">>)
        /\ ClassifiedAs(9, 8, <<"minor_up", "low">>)

\* Arsenal's move from 7th to 8th was detected and classified europa_out/medium
C20_SeventhToEighth ==
    /\ result.op = "detect_position_changes"
    /\ \E c \in result.position_changes :
          /\ c.team_name = "Arsenal"
          /\ c.previous_position = 7
          /\ c.new_position = 8
          /\ result.analysis[c] = <<"europa_out", "medium">>

----------------------------------------------------------------------------
(* The sensitivity filter *)

\* the significant bands a position lies in
Bands(position) ==
    { b \in {"title", "champions league", "relegation"} :
        \/ b = "title" /\ position = 1
        \/ b = "champions league" /\ position \in 1..4
        \/ b = "relegation" /\ position \in 18..20 }

\* C11: a change passes the filter of a SIGNIFICANT_ONLY user exactly when the
\* bands of the previous position differ from the bands of the new position,
\* and it always passes the filter of an ANY_CHANGE user
C11_SignificantOnlyIffBandsDiffer ==
    result.op = "detect_position_changes" =>
        \A c \in result.position_changes :
            /\ result.should_notify[c]["significant_only"]
                   <=> Bands(c.previous_position) # Bands(c.new_position)
            /\ result.should_notify[c]["any_change"]

\* a 9 -> 8 move of Arsenal is filtered out for SIGNIFICANT_ONLY and passes
\* for ANY_CHANGE
C11_NineToEightFiltered ==
    /\ result.op = "detect_position_changes"
    /\ \E c \in result.position_changes :
          /\ c.team_name = "Arsenal"
          /\ c.previous_position = 9
          /\ c.new_position = 8
          /\ ~result.should_notify[c]["significant_only"]
          /\ result.should_notify[c]["any_change"]

----------------------------------------------------------------------------
(* push_notification_service.py: the delivery gateway over the push platform *)

\* The deployment of the service: whether APNS_PLATFORM_ARN names a platform
\* application, and the ENVIRONMENT (which defaults to dev)
Deployments == [apns_platform_arn : BOOLEAN, environment : {"dev", "test", "prod"}]

Hex16 == "0123456789abcdef"

\* two well-formed device tokens of 64 hexadecimal characters, a token that is
\* too short, one of 64 characters that int does not read, and no token
TokenA == Hex16 \o Hex16 \o Hex16 \o Hex16
TokenB == "ffff0000ffff0000" \o Hex16 \o Hex16 \o Hex16
TokenShort == "abc123"
TokenNotHex == "not-a-device-token-" \o "not-a-device-token-" \o "not-a-device-token-" \o "zzzzzzz"
\* 64 characters that int(token, 16) reads although two are not digits
Token0x == "0x" \o SubSeq(TokenA, 3, 64)
NoToken == ""

PushTokens == {NoToken, TokenA, TokenB, TokenShort, TokenNotHex, Token0x}

\* the users of the gateway; the id of the first is part of the id of the second
PushUserIds == {"u1", "u12"}

\* preferences as far as the gateway reads them
PushPreferences == [user_id : PushUserIds, push_token : PushTokens]

\* the content of a test notification, as far as the gateway reads it
PushContent == [title |-> "EPL Forecast Test", body |-> "Test notification",
                team_name |-> "Test Team", notification_type |-> "test"]

HexDigits == {"0", "1", "2", "3", "4", "5", "6", "7", "8", "9",
              "a", "b", "c", "d", "e", "f", "A", "B", "C", "D", "E", "F"}

\* the digits of int(text, 16): hexadecimal digits, with single underscores
\* between them
hex_digits(text) ==
    /\ Len(text) > 0
    /\ \A i \in 1..Len(text) : SubSeq(text, i, i) \in HexDigits \cup {"_"}
    /\ SubSeq(text, 1, 1) # "_"
    /\ SubSeq(text, Len(text), Len(text)) # "_"
    /\ \A i \in 1..(Len(text) - 1) : SubSeq(text, i, i + 1) # "__"

\* int(text, 16) returns rather than raises ValueError: blanks around, a sign,
\* a 0x prefix (with an underscore after it), then the digits
int_base16_parses(text) ==
    LET stripped == strip(text)
        unsigned == IF startswith(stripped, "+") \/ startswith(stripped, "-")
                    THEN SubSeq(stripped, 2, Len(stripped)) ELSE stripped
        prefixed == startswith(unsigned, "0x") \/ startswith(unsigned, "0X")
        digits == IF prefixed THEN SubSeq(unsigned, 3, Len(unsigned)) ELSE unsigned
    IN \/ hex_digits(digits)
       \/ prefixed /\ startswith(digits, "_") /\ hex_digits(SubSeq(digits, 2, Len(digits)))

\* validate_push_token
validate_push_token(push_token) ==
    IF push_token = "" THEN FALSE
    ELSE IF Len(push_token) # 64 THEN FALSE
    ELSE int_base16_parses(push_token)

\* What the platform does to the calls of one send: whether each listing of
\* the endpoints with their attributes returns (find1 the search before the
\* creation, find2 the direct and find3 the broader search after it), what
\* create_platform_endpoint answers for a token no endpoint has (the endpoint, the
\* error of an endpoint that exists already or of an invalid parameter, or
\* another error), and whether set_endpoint_attributes and publish return
PushOutcomes ==
    [find1 : BOOLEAN, create : {"created", "InvalidParameter", "InternalError"},
     find2 : BOOLEAN, find3 : BOOLEAN, set : BOOLEAN, publish : BOOLEAN]

PushSmooth == [find1 |-> TRUE, create |-> "created", find2 |-> TRUE, find3 |-> TRUE,
               set |-> TRUE, publish |-> TRUE]

\* the ARN of the i-th endpoint the platform application registered
EndpointArn(i) == "endpoint/" \o ToString(i)

\* the endpoint of an ARN, as a set: empty for an ARN the platform does not know
EndpointOf(eps, arn) == { i \in 1..Len(eps) : EndpointArn(i) = arn }

\* the state of one call of the gateway: the endpoints of the platform, the
\* messages it published, and the platform calls made so far, in order
StartOfSend(eps, pub) == [endpoints |-> eps, published |-> pub, calls |-> <<>>]

Called(st, call) == [st EXCEPT !.calls = Append(@, call)]

Min(S) == CHOOSE x \in S : \A y \in S : x <= y

\* CustomUserData of an endpoint the service creates: json.dumps of the user id
\* and the time of creation
CustomUserData(user_id, created_at) ==
    "{\"user_id\": \"" \o user_id \o "\", \"created_at\": \"" \o ToString(created_at) \o "\"}"

\* what _create_or_get_endpoint and _handle_existing_endpoint return
EndpointFound(user_id, endpoint_arn) ==
    [success |-> TRUE, endpoint_arn |-> endpoint_arn, error |-> None, user_id |-> user_id,
     mock |-> FALSE, fallback |-> FALSE]

EndpointFailure(user_id, error) ==
    [success |-> FALSE, endpoint_arn |-> None, error |-> error, user_id |-> user_id,
     mock |-> FALSE, fallback |-> FALSE]

\* _find_existing_endpoint: the endpoints are listed and their attributes read
\* one by one, up to the first whose Token is the push token; its ARN, whether
\* it is enabled or not.  A listing that raises gives None (ok is FALSE).
_find_existing_endpoint(st, push_token, ok) ==
    LET listed == Called(st, "list_endpoints_by_platform_application")
        matching == { i \in 1..Len(st.endpoints) : st.endpoints[i].Token = push_token }
        visited == IF matching = {} THEN Len(st.endpoints) ELSE Min(matching)
    IN IF ~ok
       THEN [st |-> listed, arn |-> None]
       ELSE [st |-> [listed EXCEPT
                        !.calls = @ \o [i \in 1..visited |-> "get_endpoint_attributes"]],
             arn |-> IF matching = {} THEN None ELSE EndpointArn(Min(matching))]

RECURSIVE enhanced_search_from(_, _, _, _, _)
\* the loop of _find_existing_endpoint_enhanced from the i-th endpoint on: an
\* endpoint with the token is enabled if it is disabled (a failure of that is
\* logged) and returned; an endpoint whose CustomUserData has the user id in
\* it gets the token and is enabled and returned, unless that update fails
enhanced_search_from(st, i, push_token, user_id, o) ==
    IF i > Len(st.endpoints) THEN [st |-> st, arn |-> None]
    ELSE LET endpoint == st.endpoints[i]
             read == Called(st, "get_endpoint_attributes")
             set == Called(read, "set_endpoint_attributes")
         IN IF endpoint.Token = push_token
            THEN IF ~endpoint.Enabled
                 THEN [st |-> IF o.set THEN [set EXCEPT !.endpoints[i].Enabled = TRUE]
                              ELSE set,
                       arn |-> EndpointArn(i)]
                 ELSE [st |-> read, arn |-> EndpointArn(i)]
            ELSE IF Contains(endpoint.CustomUserData, user_id)
            THEN IF o.set
                 THEN [st |-> [set EXCEPT !.endpoints[i].Token = push_token,
                                          !.endpoints[i].Enabled = TRUE],
                       arn |-> EndpointArn(i)]
                 ELSE enhanced_search_from(set, i + 1, push_token, user_id, o)
            ELSE enhanced_search_from(read, i + 1, push_token, user_id, o)

\* _find_existing_endpoint_enhanced
_find_existing_endpoint_enhanced(st, push_token, user_id, o) ==
    LET listed == Called(st, "list_endpoints_by_platform_application")
    IN IF ~o.find3 THEN [st |-> listed, arn |-> None]
       ELSE enhanced_search_from(listed, 1, push_token, user_id, o)

\* the ARN the production deployment makes up when both searches found nothing
fallback_arn(user_id) == "app/APNS/EPLForecast-Fallback/" \o user_id

\* _handle_existing_endpoint: the direct search, then the broader search, then
\* in production the made-up ARN, else the failure
_handle_existing_endpoint(st, deployment, push_token, user_id, o) ==
    LET direct == _find_existing_endpoint(st, push_token, o.find2)
        enhanced == _find_existing_endpoint_enhanced(direct.st, push_token, user_id, o)
    IN IF direct.arn # None
       THEN [st |-> direct.st, result |-> EndpointFound(user_id, direct.arn)]
       ELSE IF enhanced.arn # None
       THEN [st |-> enhanced.st, result |-> EndpointFound(user_id, enhanced.arn)]
       ELSE IF deployment.environment = "prod"
       THEN [st |-> enhanced.st,
             result |-> [EndpointFound(user_id, fallback_arn(user_id))
                            EXCEPT !.fallback = TRUE]]
       ELSE [st |-> enhanced.st,
             result |-> EndpointFailure(user_id,
                            "Could not resolve existing endpoint after multiple attempts")]

\* sns.create_platform_endpoint: the platform has one endpoint per token, and
\* answers a creation for a token that has one with other attributes by
\* InvalidParameter (the created_at of CustomUserData differs on every call)
create_platform_endpoint(eps, push_token, outcome) ==
    IF \E i \in 1..Len(eps) : eps[i].Token = push_token THEN "InvalidParameter"
    ELSE outcome

\* the ARN the development and test deployments make up without a platform
mock_arn(user_id) == "app/APNS_SANDBOX/EPLForecast/" \o user_id

\* _create_or_get_endpoint
_create_or_get_endpoint(st, deployment, push_token, user_id, o, t) ==
    IF ~deployment.apns_platform_arn
    THEN IF deployment.environment \in {"dev", "test"}
         THEN [st |-> st,
               result |-> [EndpointFound(user_id, mock_arn(user_id)) EXCEPT !.mock = TRUE]]
         ELSE [st |-> st,
               result |-> EndpointFailure(user_id, "APNS platform application not configured")]
    ELSE LET found == _find_existing_endpoint(st, push_token, o.find1)
             tried == Called(found.st, "create_platform_endpoint")
             answer == create_platform_endpoint(st.endpoints, push_token, o.create)
         IN IF found.arn # None
            THEN [st |-> found.st, result |-> EndpointFound(user_id, found.arn)]
            ELSE CASE answer = "created" ->
                        [st |-> [tried EXCEPT !.endpoints =
                                    Append(@, [Token |-> push_token, Enabled |-> TRUE,
                                               CustomUserData |-> CustomUserData(user_id, t)])],
                         result |-> EndpointFound(user_id,
                                                  EndpointArn(Len(st.endpoints) + 1))]
                   [] answer = "InvalidParameter" ->
                        _handle_existing_endpoint(tried, deployment, push_token, user_id, o)
                   [] OTHER ->
                        [st |-> tried,
                         result |-> EndpointFailure(user_id, "Failed to create endpoint: "
                                                             \o answer)]

\* sns.publish: the platform accepts a message for an endpoint it has and that
\* is enabled, unless the call fails
publish(eps, endpoint_arn, ok) ==
    ok /\ \E i \in EndpointOf(eps, endpoint_arn) : eps[i].Enabled

\* the MessageId the platform gives the next message
MessageId(pub) == "message-" \o ToString(Cardinality(pub) + 1)

\* PushNotificationService.send_push_notification on the platform: the state of
\* the platform after the call, the result returned, and what the endpoint
\* resolution returned to it
PushNotificationService_send_push_notification(st, deployment, preferences, content, o, t) ==
    LET user_id == preferences.user_id
        failure(error) == [success |-> FALSE, message_id |-> None, error |-> error,
                           user_id |-> user_id]
        success(message_id) == [success |-> TRUE, message_id |-> message_id,
                                error |-> None, user_id |-> user_id]
        resolved == _create_or_get_endpoint(st, deployment, preferences.push_token,
                                            user_id, o, t)
        endpoint_arn == resolved.result.endpoint_arn
        tried == Called(resolved.st, "publish")
    IN IF preferences.push_token = ""
       THEN [st |-> st, result |-> failure("No push token available for user"),
             endpoint_result |-> EndpointFailure(user_id, "not resolved")]
       ELSE IF ~resolved.result.success
       THEN [st |-> resolved.st, result |-> failure(resolved.result.error),
             endpoint_result |-> resolved.result]
       ELSE IF resolved.result.mock /\ deployment.environment \in {"dev", "test"}
       THEN [st |-> resolved.st,
             result |-> success("mock-message-" \o ToString(t)),
             endpoint_result |-> resolved.result]
       ELSE IF publish(resolved.st.endpoints, endpoint_arn, o.publish)
       THEN [st |-> [tried EXCEPT !.published =
                        @ \cup {[MessageId |-> MessageId(tried.published),
                                 TargetArn |-> endpoint_arn,
                                 title |-> content.title, body |-> content.body]}],
             result |-> success(MessageId(tried.published)),
             endpoint_result |-> resolved.result]
       ELSE [st |-> tried, result |-> failure("publish failed"),
             endpoint_result |-> resolved.result]

RECURSIVE bulk_from(_, _, _, _, _, _, _)
\* the loop of send_bulk_notifications from the i-th notification on; attempted
\* lists the notifications handed to send_push_notification, in order
bulk_from(st, deployment, batch, outcomes, t, done, i) ==
    IF i > Len(batch) THEN done
    ELSE LET notification == batch[i]
             sent == PushNotificationService_send_push_notification(
                         done.st, deployment, notification.preferences,
                         notification.content, outcomes[i], t)
         IN bulk_from(st, deployment, batch, outcomes, t,
                      [st |-> sent.st,
                       attempted |-> Append(done.attempted, i),
                       results |->
                          IF sent.result.success
                          THEN [done.results EXCEPT
                                  !.total_sent = @ + 1,
                                  !.successes = Append(@, sent.result)]
                          ELSE [done.results EXCEPT
                                  !.total_failed = @ + 1,
                                  !.failures = Append(@, sent.result)]],
                      i + 1)

\* before the first notification of a bulk send
NoneSent(st) ==
    [st |-> st, attempted |-> <<>>,
     results |-> [total_sent |-> 0, total_failed |-> 0, successes |-> <<>>, failures |-> <<>>]]

\* the loop stopped at the first notification that fails
send_bulk_notifications_until_failure(st, deployment, batch, outcomes, t) ==
    LET upto(k) == bulk_from(st, deployment, SubSeq(batch, 1, k), outcomes, t,
                             NoneSent(st), 1)
        failing == { k \in 1..Len(batch) : upto(k).results.total_failed > 0 }
    IN IF failing = {} THEN upto(Len(batch)) ELSE upto(Min(failing))

\* send_bulk_notifications: every notification of the list is sent, one after
\* the other, and its result is appended to the successes or to the failures
send_bulk_notifications(st, deployment, batch, outcomes, t) ==
    bulk_from(st, deployment, batch, outcomes, t, NoneSent(st), 1)

\* test_notification_delivery: the token is validated, then a test
\* notification is sent to it
test_notification_delivery(st, deployment, user_id, push_token, o, t) ==
    IF ~validate_push_token(push_token)
    THEN [st |-> st,
          result |-> [success |-> FALSE, message_id |-> None,
                      error |-> "Invalid push token format", user_id |-> user_id],
          endpoint_result |-> EndpointFailure(user_id, "not resolved")]
    ELSE PushNotificationService_send_push_notification(
             st, deployment, [user_id |-> user_id, push_token |-> push_token],
             PushContent, o, t)

----------------------------------------------------------------------------
(* The gateway on the push platform: a send, a bulk send or a test delivery *)
(* under every deployment, on a platform with endpoints of earlier sends    *)

\* calls of the gateway per behaviour
MaxPushOps == 1
\* notifications of one bulk send
MaxBulk == 2

\* the notifications of the bulk sends explored
BulkNotifications ==
    { [preferences |-> [user_id |-> "u1", push_token |-> TokenA], content |-> PushContent],
      [preferences |-> [user_id |-> "u12", push_token |-> NoToken], content |-> PushContent],
      [preferences |-> [user_id |-> "u12", push_token |-> TokenB], content |-> PushContent] }

\* what the platform does to the sends of a bulk send and of a test delivery
BulkOutcomes == { PushSmooth, [PushSmooth EXCEPT !.publish = FALSE] }

\* the preferences of the sends explored: the malformed tokens differ for
\* validate_push_token only
SentPreferences ==
    { p \in PushPreferences : p.push_token \in {NoToken, TokenA, TokenB, TokenShort} }

SeqsUpTo(S, n) == UNION { [1..k -> S] : k \in 0..n }

\* send_push_notification
SendPushNotification(preferences, o) ==
    LET sent == PushNotificationService_send_push_notification(
                    StartOfSend(endpoints, published), env, preferences, PushContent, o, now)
    IN /\ endpoints' = sent.st.endpoints
       /\ published' = sent.st.published
       /\ result' = [op |-> "send_push_notification", preferences |-> preferences,
                     outcome |-> o, endpoints |-> endpoints, published |-> published,
                     calls |-> sent.st.calls, endpoint_result |-> sent.endpoint_result,
                     result |-> sent.result]

\* send_bulk_notifications
SendBulkNotifications(batch, outcomes) ==
    LET sent == send_bulk_notifications(StartOfSend(endpoints, published), env,
                                        batch, outcomes, now)
    IN /\ endpoints' = sent.st.endpoints
       /\ published' = sent.st.published
       /\ result' = [op |-> "send_bulk_notifications", notifications |-> batch,
                     outcomes |-> outcomes, endpoints |-> endpoints,
                     published |-> published, calls |-> sent.st.calls,
                     attempted |-> sent.attempted, results |-> sent.results]

\* test_notification_delivery
TestNotificationDelivery(user_id, push_token, o) ==
    LET sent == test_notification_delivery(StartOfSend(endpoints, published), env,
                                           user_id, push_token, o, now)
    IN /\ endpoints' = sent.st.endpoints
       /\ published' = sent.st.published
       /\ result' = [op |-> "test_notification_delivery",
                     preferences |-> [user_id |-> user_id, push_token |-> push_token],
                     outcome |-> o, endpoints |-> endpoints, published |-> published,
                     calls |-> sent.st.calls, endpoint_result |-> sent.endpoint_result,
                     result |-> sent.result]

\* an endpoint the service created for the user at an earlier time, which the
\* platform may have disabled since (the device rejected a message)
Registered(user_id, push_token, enabled) ==
    [Token |-> push_token, Enabled |-> enabled,
     CustomUserData |-> CustomUserData(user_id, StartTime - 1)]

\* the platform applications explored: no endpoint, an endpoint of TokenA, or
\* an endpoint of TokenA listed before one of TokenB
Platforms ==
    LET first == { <<Registered(u, TokenA, en)>> : u \in PushUserIds, en \in BOOLEAN }
        second == { <<Registered(u, TokenB, en)>> : u \in PushUserIds, en \in BOOLEAN }
    IN {<<>>} \cup first \cup { a \o b : a \in first, b \in second }

InitPush ==
    /\ env \in Deployments
    /\ now = StartTime
    /\ history = {}
    /\ latest = {}
    /\ notifications = {}
    /\ published = {}
    /\ result = [op |-> "init"]
    /\ script = Free
    /\ period = 0
    /\ endpoints \in Platforms
    /\ ops = 0
    /\ ticks = 0
    /\ saves = NoSaves
    /\ cycles = NoCycles
    /\ rule = {}
    /\ preferences_table = PreferencesItems

\* one call of the gateway
PushOperation(A) ==
    /\ A
    /\ ops' = ops + 1
    /\ UNCHANGED <<env, now, history, latest, notifications, script, period, ticks, saves, cycles, rule, preferences_table>>

Send ==
    /\ ops < MaxPushOps
    /\ \E preferences \in SentPreferences, o \in PushOutcomes :
          PushOperation(SendPushNotification(preferences, o))

Bulk ==
    /\ ops < MaxPushOps
    /\ \E batch \in SeqsUpTo(BulkNotifications, MaxBulk) :
          \E outcomes \in [1..Len(batch) -> BulkOutcomes] :
              PushOperation(SendBulkNotifications(batch, outcomes))

TestDelivery ==
    /\ ops < MaxPushOps
    /\ \E user_id \in PushUserIds, push_token \in PushTokens, o \in BulkOutcomes :
          PushOperation(TestNotificationDelivery(user_id, push_token, o))

NextPush == Send \/ Bulk \/ TestDelivery

SpecPush == InitPush /\ [][NextPush]_vars


----------------------------------------------------------------------------
(* The device token of a send *)

\* the calls that reach the push platform
PlatformCalls ==
    {"list_endpoints_by_platform_application", "get_endpoint_attributes",
     "set_endpoint_attributes", "create_platform_endpoint", "publish"}

\* C21: a send makes a call to the push platform (a search of the endpoints, a
\* creation or a publish) only for a device token of 64 hexadecimal characters;
\* a missing or malformed token gives a failure without any call.
C21_NoCallWithoutValidToken ==
    result.op = "send_push_notification" =>
        ((\E i \in 1..Len(result.calls) : result.calls[i] \in PlatformCalls)
            => validate_push_token(result.preferences.push_token))


----------------------------------------------------------------------------
(* A disabled endpoint that has the token *)

\* the calls of the gateway that resolve an endpoint and publish to it
PushOps == {"send_push_notification", "test_notification_delivery"}

\* the endpoint resolution returned the i-th endpoint of the platform, which
\* had the device token and was disabled when the call began
FoundDisabled(i) ==
    /\ result.op \in PushOps
    /\ result.endpoint_result.success
    /\ result.endpoint_result.endpoint_arn = EndpointArn(i)
    /\ result.endpoints[i].Token = result.preferences.push_token
    /\ ~result.endpoints[i].Enabled

\* C22: an endpoint that has the device token and is disabled, when the
\* endpoint resolution returns it, has been enabled again by then (and so
\* before the publish).
C22_DisabledEndpointReenabled ==
    result.op \in PushOps =>
        \A i \in 1..Len(result.endpoints) : FoundDisabled(i) => endpoints[i].Enabled


----------------------------------------------------------------------------
(* The endpoint resolution after a creation that failed *)

\* the call asked the platform to create an endpoint and the platform did not
CreationFailed ==
    /\ result.op \in PushOps
    /\ \E i \in 1..Len(result.calls) : result.calls[i] = "create_platform_endpoint"
    /\ Len(endpoints) = Len(result.endpoints)

\* C23: after a creation that failed, the endpoint resolution returns either
\* a success with the ARN of an endpoint the platform has (one that a search
\* found or repaired), or a failure that names the user.
C23_SuccessOnlyWithEndpoint ==
    CreationFailed =>
        IF result.endpoint_result.success
        THEN EndpointOf(endpoints, result.endpoint_result.endpoint_arn) # {}
        ELSE result.endpoint_result.user_id = result.preferences.user_id


----------------------------------------------------------------------------
(* The result of a delivery *)

\* the messages the platform accepted during the call
PublishedByCall == published \ result.published

\* C24: a send returns success with a message id only when the platform's
\* publish accepted the message during the call and returned that id.
C24_SuccessOnlyWhenPublished ==
    (result.op \in PushOps /\ result.result.success) =>
        \E m \in PublishedByCall : m.MessageId = result.result.message_id


----------------------------------------------------------------------------
(* The bulk send *)

\* C25: a bulk send hands every notification of the list to
\* send_push_notification exactly once, in order, whatever the earlier ones
\* returned; every result is either in successes (with success true) or in
\* failures (with success false); and total_sent + total_failed is the length
\* of the list.
C25_BulkAttemptsAll ==
    result.op = "send_bulk_notifications" =>
        LET n == Len(result.notifications)
            r == result.results
        IN /\ result.attempted = [i \in 1..n |-> i]
           /\ r.total_sent = Len(r.successes)
           /\ r.total_failed = Len(r.failures)
           /\ r.total_sent + r.total_failed = n
           /\ \A i \in 1..Len(r.successes) : r.successes[i].success
           /\ \A i \in 1..Len(r.failures) : ~r.failures[i].success
           /\ \A i \in 1..n :
                 \/ \E k \in 1..Len(r.successes) :
                       r.successes[k].user_id = result.notifications[i].preferences.user_id
                 \/ \E k \in 1..Len(r.failures) :
                       r.failures[k].user_id = result.notifications[i].preferences.user_id

\* a bulk send whose first notification failed and whose second was sent
C25_SentAfterFailure ==
    /\ result.op = "send_bulk_notifications"
    /\ Len(result.notifications) = 2
    /\ result.notifications[1].preferences.push_token = NoToken
    /\ result.results.total_failed = 1
    /\ result.results.total_sent = 1
    /\ result.results.failures[1].user_id = result.notifications[1].preferences.user_id
    /\ result.results.successes[1].user_id = result.notifications[2].preferences.user_id


----------------------------------------------------------------------------
(* The users the orchestrator notifies *)

\* the users of the notifications a cycle sent or queued
NotifiedUsers(r) == { x.user_id : x \in r.notified }

\* C26: every notification a cycle sends or queues goes to a user whose
\* preferences are enabled, and is about a detected position change of the team
\* the user tracks, the names compared without regard to case.
C26_NotifiedEnabledAboutOwnTeam ==
    (result.op \in {"lambda_handler", "process_forecast_update"}) =>
        /\ NotifiedUsers(result) = { x.user_id : x \in result.sent } \cup result.queued
        /\ \A x \in result.notified :
              /\ UserNotificationPreferences[x.user_id].enabled
              /\ \E c \in result.position_changes :
                    /\ c.team_name = x.team_name
                    /\ lower(c.team_name)
                           = lower(UserNotificationPreferences[x.user_id].team_name)

\* a cycle in which Arsenal and Chelsea moved: u1 was sent and u4, who tracks
\* "arsenal", was queued the change of Arsenal, u2 was queued the change of
\* Chelsea, and u3, who tracks Arsenal and is disabled, got nothing
C26_ArsenalUsersNotified ==
    /\ result.op = "process_forecast_update"
    /\ [user_id |-> "u1", team_name |-> "Arsenal"] \in result.notified
    /\ [user_id |-> "u4", team_name |-> "Arsenal"] \in result.notified
    /\ [user_id |-> "u2", team_name |-> "Chelsea"] \in result.notified
    /\ "u3" \notin NotifiedUsers(result)
    /\ \E c \in result.position_changes : c.team_name = "Arsenal"


----------------------------------------------------------------------------
(* The count of the notifications sent *)

\* the step is a call of process_forecast_update (on its own or by a handler)
\* that returned its summary
CycleReturned ==
    /\ ops' # ops \/ (script' # script /\ script' # Free)
    /\ result'.op \in {"lambda_handler", "process_forecast_update"}
    /\ ~result'.raised

\* C27: the notifications_sent of the summary a cycle returns is the number of
\* messages the push platform accepted during the cycle.
C27_SentCountsDeliveries ==
    [][ CycleReturned =>
          result'.notifications_sent = Cardinality(published' \ published) ]_vars


----------------------------------------------------------------------------
(* A cycle without a previous snapshot *)

\* the step is a call of process_forecast_update, on its own or by a handler
\* that fetched and stored the forecast
ProcessCalled ==
    /\ ops' # ops \/ (script' # script /\ script' # Free)
    /\ \/ result'.op = "process_forecast_update"
       \/ result'.op = "lambda_handler" /\ result'.stored # {}

\* C28: with the preferences table configured, a cycle to which
\* get_latest_snapshot returns no snapshot returns the message that there is no
\* previous history, without an error and with notifications_sent 0, and it
\* scans no preferences, checks no rate limit, sends and queues nothing and
\* writes no record.
C28_NoBaselineNoWork ==
    [][ (ProcessCalled /\ env.USER_PREFERENCES_TABLE /\ result'.current_snapshot = {})
        => /\ result'.message = "No previous history for comparison"
           /\ ~result'.raised
           /\ result'.notifications_sent = 0
           /\ result'.user_preferences = <<>>
           /\ \A u \in UserIds : result'.decisions[u] = "not evaluated"
           /\ result'.sent = {} /\ result'.queued = {}
           /\ published' = published
           /\ notifications' = notifications ]_vars

\* a cycle that stopped for want of a previous snapshot although the latest row
\* is stored (the read of it failed) and the forecast differs from it
C28_StoppedOnFailedRead ==
    /\ result.op = "process_forecast_update"
    /\ env = Configured
    /\ result.message = "No previous history for comparison"
    /\ \E item \in latest :
          item.teams["Arsenal"].position
              # result.forecast_data["Arsenal"].forecasted_position


----------------------------------------------------------------------------
(* The core operations called on their own, under every configuration *)

\* save_forecast_snapshot called on its own
SaveForecastSnapshot(forecast_data, context, ok) ==
    LET saved == save_forecast_snapshot(env, history, latest, forecast_data, context, now, ok)
    IN /\ history' = saved.history
       /\ latest' = saved.latest
       /\ result' = [op |-> "save_forecast_snapshot", forecast_data |-> forecast_data,
                     raised |-> saved.raised, snapshot |-> saved.snapshot]
       /\ UNCHANGED <<env, now, notifications, published>>

\* record_sent_notification called on its own, for a test notification
RecordSent(user_id, message_id, ok) ==
    LET preferences == UserNotificationPreferences[user_id]
        rec == record_sent_notification(env, notifications, preferences,
                                        generate_test_notification(preferences),
                                        message_id, now, ok)
    IN /\ notifications' = rec.table
       /\ result' = [op |-> "record_sent_notification", user_id |-> user_id,
                     message_id |-> message_id, saved |-> rec.saved]
       /\ UNCHANGED <<env, now, history, latest, published>>

\* no table is configured
Unconfigured == [FORECAST_HISTORY_TABLE |-> FALSE, USER_PREFERENCES_TABLE |-> FALSE]

\* the tables hold nothing, or the snapshot of an earlier forecast and the
\* records of earlier sends, whatever the environment names
InitCore ==
    /\ env \in EnvConfigs
    /\ now = StartTime
    /\ \E saved \in { save_forecast_snapshot(Configured, {}, {}, f, "Scheduled update", 0, ok) :
                         f \in ForecastData, ok \in BOOLEAN } :
          history = saved.history /\ latest = saved.latest
    /\ notifications \in { History(0, 300), History(2, 300) }
    /\ published = { [user_id |-> n.user_id, message_id |-> n.message_id,
                      notification_type |-> n.notification_type,
                      timestamp |-> n.timestamp] : n \in notifications }
    /\ result = [op |-> "init"]
    /\ script = Free
    /\ period = 0
    /\ endpoints = <<>>
    /\ ops = 0
    /\ ticks = 0
    /\ saves = NoSaves
    /\ cycles = NoCycles
    /\ rule = {}
    /\ preferences_table = PreferencesItems

Save == \E f \in ForecastData, kind \in DOMAIN HandlerContexts, ok \in BOOLEAN :
            Operation(SaveForecastSnapshot(f, HandlerContexts[kind].save, ok))

Record == \E u \in UserIds, ok \in BOOLEAN :
              Operation(RecordSent(u, Cardinality(published) + 1, ok))

NextCore == Save \/ ReadLatest \/ Process(Outcomes) \/ Check \/ Record

SpecCore == InitCore /\ [][NextCore]_vars

\* what an operation returns when it does nothing
NoOpResult(r) ==
    CASE r.op = "save_forecast_snapshot" -> ~r.raised /\ r.snapshot = {}
      [] r.op = "get_latest_snapshot" -> r.snapshot = {}
      [] r.op = "process_forecast_update" ->
            /\ ~r.raised
            /\ r.message = "Preferences table not configured"
            /\ r.user_preferences = <<>>
            /\ r.sent = {} /\ r.queued = {}
            /\ r.notifications_sent = 0
      [] r.op = "can_send_notification" ->
            r.can_send /\ r.reason = "Rate limiting not configured"
      [] r.op = "record_sent_notification" -> r.saved
      [] OTHER -> TRUE

\* C29: with neither table configured, each of save_forecast_snapshot,
\* get_latest_snapshot, process_forecast_update, can_send_notification and
\* record_sent_notification returns its empty result without raising, and
\* leaves the tables and the push platform as they were.
C29_UnconfiguredNoOp ==
    [][ (ops' # ops /\ env = Unconfigured)
        => /\ NoOpResult(result')
           /\ UNCHANGED <<history, latest, notifications, published>> ]_vars


----------------------------------------------------------------------------
(* forecast_calculator.py: the forecasted final table *)

\* matches a season is played over
SeasonGames == 38

\* round(n / d, digits) of Python for the quotients that occur, as an integer
\* count of the last digit kept (scale = 10 ^ digits): the nearest one, and
\* the even one when the quotient lies exactly between two
round_half_even(n, d, scale) ==
    LET q == (n * scale) \div d
        r == (n * scale) % d
    IN CASE 2 * r < d -> q
         [] 2 * r > d -> q + 1
         [] OTHER -> IF q % 2 = 0 THEN q ELSE q + 1

\* one row of the result for one row of the standings; points_per_game in
\* hundredths and forecasted_points in tenths
forecast_team(team_data) ==
    LET played == team_data.playedGames
        points == team_data.points
    IN [name |-> team_data.team.name,
        played |-> played,
        for |-> team_data.goalsFor,
        goal_difference |-> team_data.goalDifference,
        points |-> points,
        points_per_game |-> IF played > 0 THEN round_half_even(points, played, 100) ELSE 0,
        forecasted_points |-> IF played > 0
                              THEN round_half_even(points * SeasonGames, played, 10)
                              ELSE 0,
        current_position |-> team_data.position]

\* the key of teams.sort, with every component ranked downwards
sort_key_without_goals_for(team) ==
    <<0 - team.forecasted_points, 0 - team.goal_difference, 0>>

sort_key(team) ==
    <<0 - team.forecasted_points, 0 - team.goal_difference, 0 - team["for"]>>

\* the order of Python on tuples of three numbers
tuple_less(a, b) ==
    \/ a[1] < b[1]
    \/ a[1] = b[1] /\ a[2] < b[2]
    \/ a[1] = b[1] /\ a[2] = b[2] /\ a[3] < b[3]

\* list.sort is stable: an element goes before the first one whose key is
\* greater than its own, behind every earlier element with an equal key
RECURSIVE sorted_insert(_, _)
sorted_insert(sorted, team) ==
    IF sorted = <<>> THEN <<team>>
    ELSE IF tuple_less(sort_key(team), sort_key(Head(sorted)))
         THEN <<team>> \o sorted
         ELSE <<Head(sorted)>> \o sorted_insert(Tail(sorted), team)

RECURSIVE list_sort(_)
list_sort(teams) ==
    IF teams = <<>> THEN <<>>
    ELSE sorted_insert(list_sort(SubSeq(teams, 1, Len(teams) - 1)), teams[Len(teams)])

\* the table of the first standing of type TOTAL, or no row
total_table(epl_data) ==
    LET total == { i \in 1..Len(epl_data.standings) : epl_data.standings[i].type = "TOTAL" }
    IN IF total = {} THEN <<>> ELSE epl_data.standings[Min(total)].table

calculate_forecasts(epl_data, update_type, t) ==
    LET table_data == total_table(epl_data)
        teams == list_sort([i \in 1..Len(table_data) |-> forecast_team(table_data[i])])
    IN [teams |-> [i \in 1..Len(teams) |-> [name |-> teams[i].name,
                                            played |-> teams[i].played,
                                            for |-> teams[i]["for"],
                                            goal_difference |-> teams[i].goal_difference,
                                            points |-> teams[i].points,
                                            points_per_game |-> teams[i].points_per_game,
                                            forecasted_points |-> teams[i].forecasted_points,
                                            current_position |-> teams[i].current_position,
                                            forecasted_position |-> i]],
        last_updated |-> t,
        total_teams |-> Len(teams),
        update_type |-> update_type]

----------------------------------------------------------------------------
(* calculate_forecasts called on its own *)

\* rows of a standings table explored
MaxTeams == 3

\* the clubs of a standings table, in the order of the table
Clubs == <<"Arsenal", "Chelsea", "Liverpool">>

\* matches played and points won of a club: matches still to come, a forecast
\* that lies exactly between two tenths (3 points of 8 matches, 14.25), and
\* forecasts a point apart or less after 37 and 38 matches
Records == { [playedGames |-> 0, points |-> 0],
             [playedGames |-> 8, points |-> 3],
             [playedGames |-> 37, points |-> 36],
             [playedGames |-> 38, points |-> 36],
             [playedGames |-> 38, points |-> 37] }

GoalDifferences == {5, 10}

GoalsFor == {20, 30}

\* the i-th row of a standings table
Row(i, record, goalDifference, goalsFor) ==
    [position |-> i, team |-> [name |-> Clubs[i]],
     playedGames |-> record.playedGames, points |-> record.points,
     goalsFor |-> goalsFor, goalDifference |-> goalDifference]

Tables ==
    UNION { { [i \in 1..n |-> Row(i, rec[i], gd[i], gf[i])] :
                rec \in [1..n -> Records], gd \in [1..n -> GoalDifferences],
                gf \in [1..n -> GoalsFor] } : n \in 0..MaxTeams }

\* a table of home matches, which the forecast does not read
HomeTable == <<Row(1, [playedGames |-> 4, points |-> 12], 10, 30)>>

\* the answers of the standings API: the total table alone or behind the home
\* table, or no total table
EplData ==
    { [standings |-> <<[type |-> "TOTAL", table |-> table]>>] : table \in Tables }
    \cup { [standings |-> <<[type |-> "HOME", table |-> HomeTable],
                            [type |-> "TOTAL", table |-> table]>>] :
             table \in { tb \in Tables : Len(tb) = 1 } }
    \cup { [standings |-> <<[type |-> "HOME", table |-> HomeTable]>>],
           [standings |-> <<>>] }

UpdateTypes == {"scheduled", "live_match"}

CalculateForecasts(epl_data, update_type) ==
    LET forecast == calculate_forecasts(epl_data, update_type, now)
    IN /\ result' = [op |-> "calculate_forecasts", epl_data |-> epl_data,
                     teams |-> forecast.teams, last_updated |-> forecast.last_updated,
                     total_teams |-> forecast.total_teams,
                     update_type |-> forecast.update_type]
       /\ UNCHANGED <<env, now, history, latest, notifications, published>>

InitForecast ==
    /\ env = Configured
    /\ now = StartTime
    /\ history = {}
    /\ latest = {}
    /\ notifications = {}
    /\ published = {}
    /\ result = [op |-> "init"]
    /\ script = Free
    /\ period = 0
    /\ endpoints = <<>>
    /\ ops = 0
    /\ ticks = 0
    /\ saves = NoSaves
    /\ cycles = NoCycles
    /\ rule = {}
    /\ preferences_table = PreferencesItems

Calculate == \E epl_data \in EplData, update_type \in UpdateTypes :
                 Operation(CalculateForecasts(epl_data, update_type))

NextForecast == Calculate

SpecForecast == InitForecast /\ [][NextForecast]_vars

\* the forecast of a team before rounding, points * 38 / played, as a fraction
ExactForecast(team) ==
    IF team.played > 0
    THEN [num |-> team.points * SeasonGames, den |-> team.played]
    ELSE [num |-> 0, den |-> 1]

\* comparison of two fractions with positive denominators
FractionLess(a, b) == a.num * b.den < b.num * a.den

\* team a is ranked before team b by goal difference, then goals-for, or ties
\* with it on both
GoalsNotBelow(a, b) ==
    \/ a.goal_difference > b.goal_difference
    \/ a.goal_difference = b.goal_difference /\ a["for"] >= b["for"]

\* the forecasted positions are 1..N, one for each row of the total table
PositionsPermute(r) ==
    LET table_data == total_table(r.epl_data)
    IN /\ Len(r.teams) = Len(table_data)
       /\ { r.teams[i].forecasted_position : i \in 1..Len(r.teams) } = 1..Len(table_data)
       /\ \A i \in 1..Len(r.teams) : r.teams[i].forecasted_position = i
       /\ \A i \in 1..Len(table_data) :
             \E team \in { r.teams[k] : k \in 1..Len(r.teams) } :
                /\ team.name = table_data[i].team.name
                /\ team.played = table_data[i].playedGames
                /\ team.points = table_data[i].points
                /\ team.goal_difference = table_data[i].goalDifference
                /\ team["for"] = table_data[i].goalsFor

\* with equal played games, more points are never ranked below fewer
MorePointsNotBelow(r) ==
    \A i, j \in 1..Len(r.teams) :
       (r.teams[i].played = r.teams[j].played /\ r.teams[i].points > r.teams[j].points)
          => r.teams[i].forecasted_position < r.teams[j].forecasted_position

\* the forecasted points of every team are its forecast to the nearest tenth
RoundedToTenth(r) ==
    \A team \in { r.teams[k] : k \in 1..Len(r.teams) } :
       LET exact == ExactForecast(team)
       IN 2 * Abs(team.forecasted_points * exact.den - 10 * exact.num) <= exact.den

\* C30 as stated: the forecasted positions are a permutation of 1..N in the
\* order of the forecast (points / played) * 38 (0 when nothing is played)
\* descending, ties broken by goal difference descending and then goals-for
\* descending; with equal played games more points never rank below fewer.
C30_RankedByForecast ==
    result.op = "calculate_forecasts" =>
       /\ PositionsPermute(result)
       /\ \A i, j \in 1..Len(result.teams) :
             i < j =>
                LET a == ExactForecast(result.teams[i])
                    b == ExactForecast(result.teams[j])
                IN \/ FractionLess(b, a)
                   \/ ~FractionLess(a, b) /\ GoalsNotBelow(result.teams[i], result.teams[j])
       /\ MorePointsNotBelow(result)

\* C30 amended: the order is that of the forecasted points as reported, the
\* forecast rounded to one decimal place, descending, ties broken by goal
\* difference descending and then goals-for descending; the positions are a
\* permutation of 1..N, and with equal played games (38 at most) more points
\* never rank below fewer.
C30_RankedByRoundedForecast ==
    result.op = "calculate_forecasts" =>
       /\ PositionsPermute(result)
       /\ RoundedToTenth(result)
       /\ \A i, j \in 1..Len(result.teams) :
             i < j =>
                \/ result.teams[i].forecasted_points > result.teams[j].forecasted_points
                \/ /\ result.teams[i].forecasted_points = result.teams[j].forecasted_points
                   /\ GoalsNotBelow(result.teams[i], result.teams[j])
       /\ MorePointsNotBelow(result)

\* two teams whose forecasts differ and round to the same tenth are ranked by
\* goal difference, the lower forecast first
C30_RoundedTieDecidedByGoals ==
    /\ result.op = "calculate_forecasts"
    /\ \E i, j \in 1..Len(result.teams) :
          /\ i < j
          /\ FractionLess(ExactForecast(result.teams[i]), ExactForecast(result.teams[j]))
          /\ result.teams[i].forecasted_points = result.teams[j].forecasted_points
          /\ result.teams[i].goal_difference > result.teams[j].goal_difference
    /\ \E i, j \in 1..Len(result.teams) :
          /\ result.teams[i].played = result.teams[j].played
          /\ result.teams[i].points > result.teams[j].points


----------------------------------------------------------------------------
(* C31: the ranking and the order of the input table *)

\* the ways to reorder n rows
Reorderings(n) == { f \in [1..n -> 1..n] : \A i, j \in 1..n : i # j => f[i] # f[j] }

\* the same rows of a table in another order
Reordered(table, f) == [i \in 1..Len(table) |-> table[f[i]]]

\* the forecasted position calculate_forecasts gives the team of a name
PositionOf(teams, name) ==
    { teams[i].forecasted_position : i \in { k \in 1..Len(teams) : teams[k].name = name } }

\* C31: the ranking is a total order that does not depend on the order of the
\* input: whatever the order of the same team rows in the total table,
\* calculate_forecasts gives every team the same forecasted position.
C31_PositionsIndependentOfOrder ==
    (result.op = "calculate_forecasts" /\ Len(result.epl_data.standings) = 1
        /\ result.epl_data.standings[1].type = "TOTAL") =>
       LET table == result.epl_data.standings[1].table
       IN \A f \in Reorderings(Len(table)) :
             LET other == calculate_forecasts(
                              [standings |-> <<[type |-> "TOTAL",
                                                table |-> Reordered(table, f)]>>],
                              result.update_type, now)
             IN \A i \in 1..Len(table) :
                   PositionOf(other.teams, table[i].team.name)
                      = PositionOf(result.teams, table[i].team.name)


----------------------------------------------------------------------------
(* live_match_fetcher.py: dynamic scheduling or legacy polling *)

\* Python values of an event, by type and written form
PyTrue == [type |-> "bool", repr |-> "True"]
PyFalse == [type |-> "bool", repr |-> "False"]
PyOne == [type |-> "int", repr |-> "1"]
PyNone == [type |-> "NoneType", repr |-> "None"]
PyStr(s) == [type |-> "str", repr |-> s]
PyDict(d) == [type |-> "dict", items |-> d]

\* dict.get(key): the value of the key, None without it
dict_get(d, key) == IF key \in DOMAIN d THEN d[key] ELSE PyNone

\* value == True of Python, which the integer 1 satisfies as well
equals_True(value) == value = PyTrue \/ value = PyOne

\* value is True
is_True(value) == value = PyTrue

detect_dynamic_scheduling_mode(event) ==
    IF event.type = "dict"
    THEN CASE is_True(dict_get(event.items, "dynamic_scheduling")) -> TRUE
           [] dict_get(event.items, "source") = PyStr("schedule-manager") -> TRUE
           [] "match_info" \in DOMAIN event.items -> TRUE
           [] OTHER -> FALSE
    ELSE FALSE

\* lambda_handler names the mode after the detection
execution_mode(event) ==
    IF detect_dynamic_scheduling_mode(event) THEN "dynamic" ELSE "legacy"

\* the keys of an event and the values each may carry
EventValues ==
    [dynamic_scheduling |-> {PyTrue, PyFalse, PyOne, PyStr("true"), PyNone},
     source |-> {PyStr("schedule-manager"), PyStr("aws.events"), PyNone},
     match_info |-> {PyStr("Arsenal vs Chelsea"), PyNone},
     time |-> {PyStr("2024-01-01T00:00:00Z")}]

\* the events explored: every dict over these keys, and payloads that are no
\* dict
Events ==
    UNION { { PyDict(d) : d \in { f \in [keys -> UNION { EventValues[k] : k \in keys }] :
                                     \A k \in keys : f[k] \in EventValues[k] } } :
            keys \in SUBSET DOMAIN EventValues }
    \cup { PyNone, PyStr("schedule-manager"), PyTrue }

\* the first step of lambda_handler on an event
DetectDynamicSchedulingMode(event) ==
    /\ result' = [op |-> "detect_dynamic_scheduling_mode", event |-> event,
                  is_dynamic_mode |-> detect_dynamic_scheduling_mode(event),
                  execution_mode |-> execution_mode(event)]
    /\ UNCHANGED <<env, now, history, latest, notifications, published>>

DetectMode == \E event \in Events : Operation(DetectDynamicSchedulingMode(event))

NextDetect == DetectMode

SpecDetect == InitForecast /\ [][NextDetect]_vars

\* C32: detect_dynamic_scheduling_mode answers True exactly for a dict in which
\* dynamic_scheduling is the value True itself, or source equals
\* 'schedule-manager', or the key match_info is present; every other event is
\* handled in legacy mode.
C32_DynamicIffMarked ==
    result.op = "detect_dynamic_scheduling_mode" =>
       LET event == result.event
           marked == /\ event.type = "dict"
                     /\ \/ /\ "dynamic_scheduling" \in DOMAIN event.items
                           /\ event.items["dynamic_scheduling"] = PyTrue
                        \/ /\ "source" \in DOMAIN event.items
                           /\ event.items["source"] = PyStr("schedule-manager")
                        \/ "match_info" \in DOMAIN event.items
       IN /\ result.is_dynamic_mode <=> marked
          /\ result.execution_mode = IF marked THEN "dynamic" ELSE "legacy"

\* an event with dynamic_scheduling 1 and the source of the timer is legacy
C32_IntegerOneIsLegacy ==
    /\ result.op = "detect_dynamic_scheduling_mode"
    /\ result.event.type = "dict"
    /\ DOMAIN result.event.items = {"dynamic_scheduling", "source"}
    /\ result.event.items["dynamic_scheduling"] = PyOne
    /\ result.event.items["source"] = PyStr("aws.events")
    /\ ~result.is_dynamic_mode
    /\ result.execution_mode = "legacy"


----------------------------------------------------------------------------
(* notification_rate_limiter.py: the statistics of a user *)

WeekSeconds == 604800

\* _calculate_next_allowed_time
_calculate_next_allowed_time(table, user_id, current_time, ok) ==
    LET recent == _get_recent_notifications(table, user_id, current_time, ok)
    IN IF recent = {} THEN current_time
       ELSE LET last_notification_time == Max({ n.timestamp : n \in recent })
                spaced == last_notification_time + min_time_between_notifications
                hourly_notifications ==
                    { n \in recent : current_time - n.timestamp <= HourSeconds }
                min_wait_time ==
                    IF Cardinality(hourly_notifications) >= max_notifications_per_hour
                    THEN LET oldest_hourly ==
                                 Min({ n.timestamp : n \in hourly_notifications })
                         IN Max({spaced, oldest_hourly + HourSeconds + cooldown_after_burst})
                    ELSE spaced
            IN Max({min_wait_time, current_time})

\* get_user_notification_stats; oks tells which of its three reads of the
\* table succeed: its own, the one of can_send_notification_by_user_id and the
\* one of _calculate_next_allowed_time
get_user_notification_stats(e, table, user_id, current_time, oks) ==
    IF ~e.FORECAST_HISTORY_TABLE
    THEN [error |-> "Rate limiting not configured"]
    ELSE LET recent == _get_recent_notifications(table, user_id, current_time, oks.stats)
             d == can_send_notification_by_user_id(e, table, user_id, current_time, oks.check)
         IN [error |-> "",
             user_id |-> user_id,
             notifications_last_hour |->
                 Cardinality({ n \in recent : current_time - n.timestamp <= HourSeconds }),
             notifications_last_day |->
                 Cardinality({ n \in recent : current_time - n.timestamp <= DaySeconds }),
             notifications_last_week |->
                 Cardinality({ n \in recent : current_time - n.timestamp <= WeekSeconds }),
             last_notification_time |-> Max({ n.timestamp : n \in recent } \cup {0}),
             can_send_notification |-> d.can_send,
             rate_limit_reason |-> IF ~d.can_send THEN d.reason ELSE "None",
             next_allowed_time |->
                 _calculate_next_allowed_time(table, user_id, current_time, oks.next)]

----------------------------------------------------------------------------
(* The statistics asked on their own *)

\* records of an input history of the statistics
MaxStatsHistory == 8

\* the clock at the start, more than a week after the first record
StatsTime == 700000

\* seconds between the records of an input history: the minimum spacing, five
\* in less than half an hour, one a day
StatsGaps == {300, 400, 86400}

\* seconds since the last record of an input history
StatsOffsets == {0, 1900}

\* k records of u1, the last one offset seconds before the start, and a test
\* notification of u2 at the start
StatsHistory(k, gap, offset) ==
    { [user_id |-> "u1",
       team_name |-> "Arsenal",
       notification_type |-> "position_change",
       timestamp |-> StatsTime - offset - gap * i,
       message_id |-> k - i,
       content_hash |-> _generate_content_hash(HistoryContents[(i % Len(HistoryContents)) + 1])]
      : i \in 0..(k - 1) }
    \cup
    { [user_id |-> "u2",
       team_name |-> "Chelsea",
       notification_type |-> "test",
       timestamp |-> StatsTime,
       message_id |-> k + 1,
       content_hash |->
           _generate_content_hash(generate_test_notification(UserNotificationPreferences["u2"]))] }

StatsReads == [stats : BOOLEAN, check : BOOLEAN, next : BOOLEAN]

AllRead == [stats |-> TRUE, check |-> TRUE, next |-> TRUE]

GetUserNotificationStats(user_id, oks) ==
    LET stats == get_user_notification_stats(env, notifications, user_id, now, oks)
    IN /\ result' = [op |-> "get_user_notification_stats", user_id |-> user_id,
                     current_time |-> now, reads |-> oks, stats |-> stats]
       /\ UNCHANGED <<env, now, history, latest, notifications, published>>

InitStats ==
    /\ env \in { e \in EnvConfigs : e.USER_PREFERENCES_TABLE }
    /\ now = StatsTime
    /\ history = {}
    /\ latest = {}
    /\ \E k \in 0..MaxStatsHistory, gap \in StatsGaps, offset \in StatsOffsets :
          notifications = StatsHistory(k, gap, offset)
    /\ published = { [user_id |-> n.user_id, message_id |-> n.message_id,
                      notification_type |-> n.notification_type,
                      timestamp |-> n.timestamp] : n \in notifications }
    /\ result = [op |-> "init"]
    /\ script = Free
    /\ period = 0
    /\ endpoints = <<>>
    /\ ops = 0
    /\ ticks = 0
    /\ saves = NoSaves
    /\ cycles = NoCycles
    /\ rule = {}
    /\ preferences_table = PreferencesItems

Stats == \E u \in {"u1", "u2"}, oks \in StatsReads :
             Operation(GetUserNotificationStats(u, oks))

NextStats ==
    \/ Wait(LimiterDeltas)
    \/ Stats

SpecStats == InitStats /\ [][NextStats]_vars

\* the statistics were computed from reads that all succeeded
StatsRead(r) ==
    /\ r.op = "get_user_notification_stats"
    /\ r.stats.error = ""
    /\ r.reads = AllRead

\* C33: the weekly count of get_user_notification_stats is the number of the
\* user's notification records with a timestamp in the trailing 604800
\* seconds, whatever the history.
C33_WeeklyCountsTheWeek ==
    StatsRead(result) =>
       result.stats.notifications_last_week
          = Cardinality(SendsWithin(result.user_id, result.current_time, WeekSeconds))

\* a content no record of the input histories carries
FreshContent == ArsenalContent(4, 5)

\* C34: the eligibility get_user_notification_stats reports is the decision
\* of the limiter: for every history and time, can_send_notification_by_user_id
\* allows exactly when can_send_notification allows a notification whose
\* content is no duplicate.
C34_EligibilityIsTheDecision ==
    StatsRead(result) =>
       (result.stats.can_send_notification
          <=> can_send_notification(env, notifications, result.user_id, result.current_time,
                                    FreshContent, TRUE).can_send)


----------------------------------------------------------------------------
(* C35: the snapshot rows during process_forecast_update *)

\* the places of the calls of an invocation that read the latest row
LatestReads(calls) ==
    { i \in 1..Len(calls) : calls[i] = StoreCall("get_item", latest_key) }

\* the keys of the rows an invocation has put
PutKeys(calls) == { calls[i].key : i \in { k \in 1..Len(calls) : calls[k].call = "put_item" } }

\* C35: process_forecast_update reads the latest row of the snapshot store
\* once, before any other call (and not at all when it has no table to read),
\* puts no row under the key of a snapshot, and leaves the history rows and
\* the latest row as they were, whatever it sends or records.
C35_LatestReadOnceRowsKept ==
    [][ ( /\ ops' # ops \/ (script' # script /\ script' # Free)
          /\ result'.op \in {"process_forecast_update", "lambda_handler"} )
        => /\ LatestReads(result'.store_calls) \subseteq {1}
           /\ (env = Configured /\ result'.message # "")
                 => LatestReads(result'.store_calls) = {1}
           /\ \A key \in PutKeys(result'.store_calls) : startswith(key, "notification_")
           /\ result'.op = "process_forecast_update" => UNCHANGED <<history, latest>> ]_vars

\* process_forecast_update called on its own has read the latest row first,
\* sent a notification and put its record
C35_SentAndRecordedAfterOneRead ==
    /\ result.op = "process_forecast_update"
    /\ result.sent # {}
    /\ LatestReads(result.store_calls) = {1}
    /\ PutKeys(result.store_calls) # {}
    /\ latest # {}


----------------------------------------------------------------------------
(* process_forecast_update in several invocations at the same time: one step
   for every call an invocation makes on the history table or the platform *)

\* what an invocation has read, decided and done so far
CycleStart(forecast_data, context, t) ==
    [pc |-> "loop", forecast_data |-> forecast_data, context |-> context, started |-> t,
     current_snapshot |-> {}, position_changes |-> {}, users |-> <<>>,
     content |-> {}, message_id |-> 0, message |-> "",
     sent |-> {}, recorded |-> {}, queued |-> {},
     notifications_processed |-> 0, notifications_sent |-> 0]

\* lines 41-66: the latest snapshot is read, the changes are detected and the
\* preferences are scanned
BeginCycle(i, forecast_data, context, ok) ==
    /\ cycles[i].pc = "idle"
    /\ env.USER_PREFERENCES_TABLE
    /\ LET st == CycleStart(forecast_data, context, now)
           current_snapshot == get_latest_snapshot(env, latest, ok)
           position_changes ==
               detect_position_changes(CHOOSE x \in current_snapshot : TRUE,
                                       _create_snapshot_from_data(forecast_data, context, now))
       IN cycles' = [cycles EXCEPT ![i] =
             IF current_snapshot = {}
             THEN [st EXCEPT !.pc = "done", !.message = "No previous history for comparison"]
             ELSE IF position_changes = {}
             THEN [st EXCEPT !.pc = "done", !.message = "No position changes detected",
                             !.current_snapshot = current_snapshot]
             ELSE [st EXCEPT !.current_snapshot = current_snapshot,
                             !.position_changes = position_changes,
                             !.users = _get_all_user_preferences(TRUE)]]
    /\ result' = [op |-> "cycle", invocation |-> i, line |-> 66]
    /\ UNCHANGED <<notifications, published>>

\* lines 72-110 for the next user of the scan, up to the decision of the rate
\* limiter: the user is passed over, denied, queued for the end of the day or
\* about to be sent to; after the last user the call returns
NextUser(i) ==
    /\ cycles[i].pc = "loop"
    /\ LET st == cycles[i]
           preferences == UserNotificationPreferences[Head(st.users)]
           team_changes == user_team_changes(st.position_changes, preferences)
           change == CHOOSE c \in team_changes : TRUE
           previous == CHOOSE x \in st.current_snapshot : TRUE
           new_snapshot == _create_snapshot_from_data(st.forecast_data, st.context, st.started)
           content == generate_position_change_notification(change, st.context)
           d == can_send_notification(env, notifications, preferences.user_id, now, content,
                                      TRUE)
           passed == [st EXCEPT !.users = Tail(@)]
           counted == [passed EXCEPT !.notifications_processed = @ + 1]
       IN cycles' = [cycles EXCEPT ![i] =
             IF st.users = <<>> THEN [st EXCEPT !.pc = "done", !.message = "Processed"]
             ELSE IF ~preferences.enabled \/ team_changes = {} THEN passed
             ELSE IF ~_should_notify_user(preferences, change, previous, new_snapshot)
             THEN counted
             ELSE IF ~d.can_send THEN counted
             ELSE IF preferences.notification_timing = "immediate"
             THEN [st EXCEPT !.pc = "publish", !.content = {content},
                             !.notifications_processed = @ + 1]
             ELSE [counted EXCEPT !.queued = @ \cup {preferences.user_id},
                                  !.notifications_sent = @ + 1]]
    /\ result' = [op |-> "cycle", invocation |-> i, line |-> 96]
    /\ UNCHANGED <<notifications, published>>

\* line 250: the notification goes to the push service
Publish(i, accepted) ==
    /\ cycles[i].pc = "publish"
    /\ LET st == cycles[i]
           preferences == UserNotificationPreferences[Head(st.users)]
           content == CHOOSE c \in st.content : TRUE
           r == send_push_notification(preferences, content, accepted,
                                       Cardinality(published) + 1)
       IN IF r.success
          THEN /\ published' = published \cup
                                  {[user_id |-> preferences.user_id,
                                    message_id |-> r.message_id,
                                    notification_type |-> content.notification_type,
                                    timestamp |-> now]}
               /\ cycles' = [cycles EXCEPT ![i] =
                     [st EXCEPT !.pc = "record", !.message_id = r.message_id,
                                !.sent = @ \cup {[user_id |-> preferences.user_id,
                                                  message_id |-> r.message_id,
                                                  timestamp |-> now,
                                                  content |-> content]}]]
          ELSE /\ published' = published
               /\ cycles' = [cycles EXCEPT ![i] =
                     [st EXCEPT !.pc = "loop", !.users = Tail(@), !.content = {}]]
    /\ result' = [op |-> "cycle", invocation |-> i, line |-> 250]
    /\ UNCHANGED notifications

\* line 257: the send is recorded, and the loop goes on
PutRecord(i, ok) ==
    /\ cycles[i].pc = "record"
    /\ LET st == cycles[i]
           preferences == UserNotificationPreferences[Head(st.users)]
           content == CHOOSE c \in st.content : TRUE
           rec == record_sent_notification(env, notifications, preferences, content,
                                           st.message_id, now, ok)
       IN /\ notifications' = rec.table
          /\ cycles' = [cycles EXCEPT ![i] =
                [st EXCEPT !.pc = "loop", !.users = Tail(@), !.content = {},
                           !.recorded = IF rec.saved
                                        THEN @ \cup {[user_id |-> preferences.user_id,
                                                      message_id |-> st.message_id,
                                                      timestamp |-> now]}
                                        ELSE @,
                           !.notifications_sent = @ + 1]]
    /\ result' = [op |-> "cycle", invocation |-> i, line |-> 257]
    /\ UNCHANGED published

\* one step of an invocation
CycleStep(A) ==
    /\ A
    /\ UNCHANGED <<env, now, history, latest, script, period, endpoints, ops, ticks, saves,
                   rule, preferences_table>>

\* every invocation has returned
CyclesReturned == \A i \in Invocations : cycles[i].pc = "done"

\* the contents the invocations have sent
SentContents == { s.content : s \in UNION { cycles[i].sent : i \in Invocations } }

\* a snapshot with Arsenal fifth is the latest one, and no notification has
\* been sent
InitRace ==
    /\ env = Configured
    /\ now = StartTime
    /\ \E saved \in { save_forecast_snapshot(Configured, {}, {}, ForecastWithArsenalAt(5),
                                             "Scheduled update", 0, TRUE) } :
          history = saved.history /\ latest = saved.latest
    /\ notifications = {}
    /\ published = {}
    /\ result = [op |-> "init"]
    /\ script = Free
    /\ period = 0
    /\ endpoints = <<>>
    /\ ops = 0
    /\ ticks = 0
    /\ saves = NoSaves
    /\ cycles = NoCycles
    /\ rule = {}
    /\ preferences_table = PreferencesItems

\* the forecasts handed to the invocations: Arsenal fourth, a change, or fifth
\* as before
RaceForecasts == { ForecastWithArsenalAt(4), ForecastWithArsenalAt(5) }

\* seconds the clock may advance in one step: within and at the end of the
\* minimum spacing and of the duplicate window
RaceDeltas == {1, 299, 300, 3599, 3600}

StartCycle ==
    \E i \in Invocations, f \in RaceForecasts, kind \in DOMAIN HandlerContexts, ok \in BOOLEAN :
        CycleStep(BeginCycle(i, f, HandlerContexts[kind].process, ok))

Decide == \E i \in Invocations : CycleStep(NextUser(i))

Deliver == \E i \in Invocations, accepted \in BOOLEAN : CycleStep(Publish(i, accepted))

RecordSend == \E i \in Invocations, ok \in BOOLEAN : CycleStep(PutRecord(i, ok))

\* can_send_notification once more, after every invocation has returned
CheckAgain ==
    /\ CyclesReturned
    /\ \E u \in {"u1"}, content \in SentContents \cup {FreshContent}, ok \in BOOLEAN :
          Operation(CanSendNotification(u, content, ok))

NextRace ==
    \/ StartCycle
    \/ Decide
    \/ Deliver
    \/ RecordSend
    \/ Wait(RaceDeltas)
    \/ CheckAgain

SpecRace == InitRace /\ [][NextRace]_vars

\* the sends of the invocations to a user
SentTo(u) == { s \in UNION { cycles[i].sent : i \in Invocations } : s.user_id = u }

\* every send of the invocations to a user has been recorded
AllRecorded(u) ==
    \A i \in Invocations : \A s \in cycles[i].sent :
       s.user_id = u => \E r \in cycles[i].recorded : r.message_id = s.message_id

\* C36: invocations of process_forecast_update that run at the same time,
\* read the same previous snapshot and detect the same change send a user at
\* most one notification each, so at most as many as there are invocations;
\* and once all have returned with their sends recorded, a further
\* can_send_notification that reads the records is denied for any content
\* within the minimum spacing of a send, and for the content of a send within
\* the duplicate window.
C36_RaceBoundedThenDenied ==
    /\ \A u \in UserIds :
          /\ \A i \in Invocations :
                cycles[i].pc # "idle"
                   => Cardinality({ s \in cycles[i].sent : s.user_id = u }) <= 1
          /\ Cardinality({ m \in published : m.user_id = u }) <= MaxInvocations
          /\ { m.message_id : m \in { x \in published : x.user_id = u } }
                = { s.message_id : s \in { x \in UNION { cycles[i].sent : i \in { k \in Invocations : cycles[k].pc # "idle" } } : x.user_id = u } }
    /\ (result.op = "can_send_notification" /\ CyclesReturned /\ result.read_ok
          /\ AllRecorded(result.user_id))
         => \A s \in SentTo(result.user_id) :
               /\ now - s.timestamp < min_time_between_notifications => ~result.can_send
               /\ (s.content = result.content
                     /\ now - s.timestamp < duplicate_content_window) => ~result.can_send

-----------------------------------------------------------------------------
(* schedule_manager.py: the Schedule Manager and the polling rule *)

\* Instants are seconds on one clock.  A match keeps its kickoff and its
\* window as ISO strings with their offset and reads them back with
\* fromisoformat, which gives the same instants.
PreMatchSeconds == 900
PostKickoffSeconds == 9000
LookBackSeconds == 10800
UpcomingMinutes == 15

\* events a feed of the model holds at most
MaxEvents == 2
\* kickoffs of the events, in seconds after the start of the run
KickoffOffsets == {0 - 10801, 0 - 10800, 0 - 9001, 0 - 9000, 0 - 1, 0, 900, 901, 86400, 86401}
\* seconds between the clock read of parse_ics_schedule and that of evaluate_match_window
ScheduleLags == {0, 1}

\* a VEVENT: its summary, whether dtstart is a datetime (a date for an all-day event), the kickoff
Fixture(summary, timed, dtstart) == [summary |-> summary, timed |-> timed, dtstart |-> dtstart]

starts_with_football(summary) == Len(summary) >= 10 /\ SubSeq(summary, 1, 10) = "[football]"

RECURSIVE sort_by_start_time(_)
sort_by_start_time(matches) ==
    IF matches = <<>> THEN <<>>
    ELSE LET rest == sort_by_start_time(Tail(matches))
             m == Head(matches)
             k == Cardinality({ i \in 1..Len(rest) : rest[i].start_time < m.start_time })
         IN  SubSeq(rest, 1, k) \o <<m>> \o SubSeq(rest, k + 1, Len(rest))

\* parse_ics_schedule at clock t over the events of the feed; any failure of
\* the download or of the parser gives no match.
parse_ics_schedule(feed, ok, t) ==
    IF ~ok THEN <<>>
    ELSE LET window_start == t - LookBackSeconds
             window_end == t + DaySeconds
             kept == SelectSeq(feed, LAMBDA c :
                        /\ c.timed
                        /\ window_start <= c.dtstart /\ c.dtstart <= window_end
                        /\ starts_with_football(c.summary))
         IN  sort_by_start_time(
                [ i \in 1..Len(kept) |->
                    [summary |-> kept[i].summary,
                     start_time |-> kept[i].dtstart,
                     window_start |-> kept[i].dtstart - PreMatchSeconds,
                     window_end |-> kept[i].dtstart + PostKickoffSeconds] ])

\* evaluate_match_window with the test of the active window left out
evaluate_match_window_upcoming_only(matches, t) ==
    LET upcoming == SelectSeq(matches, LAMBDA m :
                       0 <= m.start_time - t /\ m.start_time - t <= UpcomingMinutes * 60)
    IN  IF upcoming # <<>>
        THEN [is_active |-> TRUE, active_matches |-> <<>>, upcoming_matches |-> upcoming]
        ELSE [is_active |-> FALSE, active_matches |-> <<>>, upcoming_matches |-> <<>>]

\* evaluate_match_window at clock t
evaluate_match_window(matches, t) ==
    LET active == SelectSeq(matches, LAMBDA m : m.window_start <= t /\ t <= m.window_end)
        upcoming == SelectSeq(matches, LAMBDA m :
                       0 <= m.start_time - t /\ m.start_time - t <= UpcomingMinutes * 60)
    IN  IF active # <<>>
        THEN [is_active |-> TRUE, active_matches |-> active, upcoming_matches |-> upcoming]
        ELSE IF upcoming # <<>>
        THEN [is_active |-> TRUE, active_matches |-> active, upcoming_matches |-> upcoming]
        ELSE [is_active |-> FALSE, active_matches |-> <<>>, upcoming_matches |-> <<>>]

\* events.put_rule creates the rule or replaces its state, keeping its targets
put_rule(r, state) ==
    IF r = {} THEN { [State |-> state, Targets |-> {}] }
    ELSE { [x EXCEPT !.State = state] : x \in r }

\* events.put_targets of the target with Id 1
put_targets(r) == { [x EXCEPT !.Targets = @ \cup {"1"}] : x \in r }

\* manage_polling_rule: the state it returns and the rule it leaves.  An
\* exception of either call is caught and answered with the state ERROR.
manage_polling_rule(window_status, r, o) ==
    LET rule_state == IF window_status.is_active THEN "ENABLED" ELSE "DISABLED"
    IN  IF ~o.put_rule THEN [state |-> "ERROR", rule |-> r]
        ELSE IF ~o.put_targets THEN [state |-> "ERROR", rule |-> put_rule(r, rule_state)]
        ELSE [state |-> rule_state, rule |-> put_targets(put_rule(r, rule_state))]

\* lambda_handler of schedule_manager.py: the response, and the rule after it.
\* matches and evaluated_at are kept beside the response for the properties.
schedule_manager(e, r, feed, o, t, lag) ==
    IF ~(e.SCHEDULE_TABLE /\ e.S3_BUCKET)
    THEN [statusCode |-> 500, window_active |-> FALSE, rule_state |-> "",
          matches |-> <<>>, evaluated_at |-> t, rule |-> r]
    ELSE LET matches == parse_ics_schedule(feed, o.ics, t)
             window_status == evaluate_match_window(matches, t + lag)
             rule_result == manage_polling_rule(window_status, r, o)
         IN  [statusCode |-> 200, window_active |-> window_status.is_active,
              rule_state |-> rule_result.state, matches |-> matches,
              evaluated_at |-> t + lag, rule |-> rule_result.rule]

ScheduleEnvs == [SCHEDULE_TABLE : BOOLEAN, S3_BUCKET : BOOLEAN]

\* what the calls of one run do: the download and parse of the feed, put_rule,
\* put_targets, the put of the schedule state (its failure is swallowed)
ScheduleSmooth == [ics |-> TRUE, put_rule |-> TRUE, put_targets |-> TRUE, store |-> TRUE]
ScheduleOutcomes ==
    { ScheduleSmooth,
      [ScheduleSmooth EXCEPT !.ics = FALSE],
      [ScheduleSmooth EXCEPT !.put_rule = FALSE],
      [ScheduleSmooth EXCEPT !.put_targets = FALSE],
      [ScheduleSmooth EXCEPT !.store = FALSE] }

Fixtures(t) ==
    { Fixture("[football] Arsenal v Chelsea", TRUE, t + d) : d \in KickoffOffsets }
      \cup { Fixture("Player of the Month", TRUE, t + d) : d \in {0 - 9000, 0} }
      \cup { Fixture("[football] Fulham v Everton", FALSE, t) }

Feeds(t) == UNION { [1..n -> Fixtures(t)] : n \in 0..MaxEvents }

PollingRules == { {} } \cup { { [State |-> s, Targets |-> {"1"}] } : s \in {"ENABLED", "DISABLED"} }

InitSchedule ==
    /\ env \in ScheduleEnvs
    /\ now = StartTime
    /\ history = {}
    /\ latest = {}
    /\ notifications = {}
    /\ published = {}
    /\ result = [op |-> "init"]
    /\ script = Free
    /\ period = 0
    /\ endpoints = <<>>
    /\ ops = 0
    /\ ticks = 0
    /\ saves = NoSaves
    /\ cycles = NoCycles
    /\ rule \in PollingRules
    /\ preferences_table = PreferencesItems

ScheduleManager ==
    /\ script = Free
    /\ ops < MaxOps
    /\ \E feed \in Feeds(now), o \in ScheduleOutcomes, lag \in ScheduleLags :
          LET r == schedule_manager(env, rule, feed, o, now, lag)
          IN  /\ result' = [op |-> "schedule_manager", statusCode |-> r.statusCode,
                            window_active |-> r.window_active, rule_state |-> r.rule_state,
                            matches |-> r.matches, evaluated_at |-> r.evaluated_at,
                            feed |-> feed]
              /\ rule' = r.rule
              /\ now' = now + lag
    /\ ops' = ops + 1
    /\ UNCHANGED <<env, history, latest, notifications, published, script, period, endpoints,
                   ticks, saves, cycles, preferences_table>>

NextSchedule == ScheduleManager

SpecSchedule == InitSchedule /\ [][NextSchedule]_vars

\* the run answered 200 and reported a rule state, not ERROR
CompletedWithoutError(r) ==
    /\ r.op = "schedule_manager"
    /\ r.statusCode = 200
    /\ r.rule_state # "ERROR"

\* some parsed match starts within the next 15 minutes of t or is active at t
InMatchWindow(matches, t) ==
    \E i \in 1..Len(matches) :
       \/ 0 <= matches[i].start_time - t /\ matches[i].start_time - t <= 900
       \/ matches[i].start_time - 900 <= t /\ t <= matches[i].start_time + 9000

\* C37: after a run of the Schedule Manager that completed without error the
\* polling rule exists and is ENABLED if and only if some parsed match starts
\* within the next 15 minutes or is active at the time of the run (kickoff -
\* 15 min <= now <= kickoff + 2 h 30 min); otherwise it is DISABLED.
C37_RuleEnabledIffInMatchWindow ==
    CompletedWithoutError(result) =>
       /\ rule # {}
       /\ \A x \in rule :
             /\ x.State \in {"ENABLED", "DISABLED"}
             /\ x.State = "ENABLED" <=> InMatchWindow(result.matches, result.evaluated_at)
             /\ x.State = result.rule_state

\* a run that found the rule disabled enables it for a match in progress that
\* kicked off before the run
C37_EnabledDuringMatch ==
    /\ CompletedWithoutError(result)
    /\ \A x \in rule : x.State = "ENABLED"
    /\ Len(result.matches) = 1
    /\ result.matches[1].start_time < result.evaluated_at
    /\ result.window_active

-----------------------------------------------------------------------------
(* The filter of the orchestrator against the classes of the content generator *)

\* C38: for every detected move between two different positions of 1..20,
\* is_significant_change holds if and only if _analyze_position_change gives
\* the move the significance high.
C38_SignificantIffHigh ==
    result.op = "detect_position_changes" =>
        \A c \in result.position_changes :
            is_significant_change(c, result.previous_snapshot, result.current_snapshot)
                <=> result.analysis[c][2] = "high"

-----------------------------------------------------------------------------
(* api_handler.py: the preferences of a user and the push token *)

EPL_TEAMS ==
    {"Arsenal", "Aston Villa", "Brighton", "Burnley", "Chelsea", "Crystal Palace", "Everton",
     "Fulham", "Liverpool", "Luton Town", "Manchester City", "Manchester United",
     "Newcastle United", "Nottingham Forest", "Sheffield United", "Tottenham", "West Ham",
     "Wolves", "Bournemouth", "Brentford"}

\* calls of the API in one behaviour
MaxApiOps == 2

\* a field the request body does not hold
Absent == "<absent>"

\* the JSON object of a request body: the fields that are present
Body(fields) == [k \in { f \in DOMAIN fields : fields[f] # Absent } |-> fields[k]]

\* dict.get with a default; the JSON literals true and false are kept as text
body_get(body, key, default) == IF key \in DOMAIN body THEN body[key] ELSE default

\* the truth value of an optional string: None and the empty string are false
truthy(value) == value # None /\ value # ""

\* UserNotificationPreferences(...) built at clock t: __post_init__ sets
\* created_at when none is given and always sets updated_at
new_preferences(user_id, team_name, enabled, timing, sensitivity, push_token, created_at, t) ==
    [user_id |-> user_id, team_name |-> team_name, enabled |-> enabled,
     notification_timing |-> timing, notification_sensitivity |-> sensitivity,
     push_token |-> push_token, email_address |-> None, email_notifications_enabled |-> FALSE,
     created_at |-> IF created_at = None THEN t ELSE created_at, updated_at |-> t]

\* from_dynamodb_item: the object of a stored item, read at clock t
from_dynamodb_item(item, t) == [item EXCEPT !.updated_at = t]

\* Table.get_item by user_id: the items found
get_item_preferences(table, user_id) == { i \in table : i.user_id = user_id }

\* Table.put_item: the item replaces the one with its key
put_item_preferences(table, item) == { i \in table : i.user_id # item.user_id } \cup {item}

\* the validated fields of a preferences request, or the status of the refusal
Response(status, table) == [statusCode |-> status, table |-> table]

\* handle_update_preferences: the status of the response and the table after it
handle_update_preferences(e, table, user_id, body_ok, body, put_ok, t) ==
    LET team_name == body_get(body, "team_name", "")
        timing == body_get(body, "notification_timing", "immediate")
        sensitivity == body_get(body, "notification_sensitivity", "any_change")
        preferences == new_preferences(user_id, team_name, body_get(body, "enabled", "true") = "true",
                                       timing, sensitivity,
                                       body_get(body, "push_token", None), None, t)
    IN  IF user_id = "" THEN Response(400, table)
        ELSE IF ~body_ok THEN Response(400, table)
        ELSE IF team_name # "" /\ team_name \notin EPL_TEAMS THEN Response(400, table)
        ELSE IF timing \notin {"immediate", "end_of_day"} THEN Response(400, table)
        ELSE IF sensitivity \notin Sensitivities THEN Response(400, table)
        ELSE IF ~e.USER_PREFERENCES_TABLE THEN Response(500, table)
        ELSE IF ~put_ok THEN Response(500, table)
        ELSE Response(200, put_item_preferences(table, preferences))

\* handle_register_push_token: the token is set on the stored preferences, or
\* on default preferences for Arsenal when the user has none
handle_register_push_token(e, table, user_id, body_ok, body, get_ok, put_ok, t) ==
    LET push_token == body_get(body, "push_token", "")
        found == get_item_preferences(table, user_id)
        preferences ==
            IF found # {} THEN from_dynamodb_item(CHOOSE i \in found : TRUE, t)
            ELSE new_preferences(user_id, "Arsenal", TRUE, "immediate", "any_change", None,
                                 None, t)
    IN  IF user_id = "" THEN Response(400, table)
        ELSE IF ~body_ok THEN Response(400, table)
        ELSE IF ~truthy(push_token) THEN Response(400, table)
        ELSE IF ~e.USER_PREFERENCES_TABLE THEN Response(500, table)
        ELSE IF ~get_ok \/ ~put_ok THEN Response(500, table)
        ELSE Response(200,
                put_item_preferences(table, [preferences EXCEPT !.push_token = push_token]))

\* the X-User-ID header of a request: none, or the user
ApiUsers == {"", "u1"}

RegisterBodies == { Body([push_token |-> p]) : p \in {Absent, "", "token-1", "token-2"} }

UpdateBodies ==
    { Body([team_name |-> team, notification_timing |-> timing,
            notification_sensitivity |-> sensitivity, push_token |-> p, enabled |-> en]) :
        team \in {Absent, "Chelsea", "Narnia"},
        timing \in {Absent, "end_of_day", "weekly"},
        sensitivity \in {Absent, "significant_only"},
        p \in {Absent, "token-2"},
        en \in {Absent, "false"} }

InitApi ==
    /\ env \in { e \in EnvConfigs : e.FORECAST_HISTORY_TABLE }
    /\ now = StartTime
    /\ history = {}
    /\ latest = {}
    /\ notifications = {}
    /\ published = {}
    /\ result = [op |-> "init"]
    /\ script = Free
    /\ period = 0
    /\ endpoints = <<>>
    /\ ops = 0
    /\ ticks = 0
    /\ saves = NoSaves
    /\ cycles = NoCycles
    /\ rule = {}
    /\ preferences_table = {}

ApiCall(op, user_id, body, response) ==
    /\ script = Free
    /\ ops < MaxApiOps
    /\ preferences_table' = response.table
    /\ result' = [op |-> op, user_id |-> user_id, body |-> body,
                  statusCode |-> response.statusCode]
    /\ ops' = ops + 1
    /\ UNCHANGED <<env, now, history, latest, notifications, published, script, period,
                   endpoints, ticks, saves, cycles, rule>>

RegisterPushToken ==
    \E user_id \in ApiUsers, body \in RegisterBodies, body_ok \in BOOLEAN,
       get_ok \in BOOLEAN, put_ok \in BOOLEAN :
       ApiCall("handle_register_push_token", user_id, body,
               handle_register_push_token(env, preferences_table, user_id, body_ok, body,
                                          get_ok, put_ok, now))

UpdatePreferences ==
    \E user_id \in ApiUsers, body \in UpdateBodies, body_ok \in BOOLEAN, put_ok \in BOOLEAN :
       ApiCall("handle_update_preferences", user_id, body,
               handle_update_preferences(env, preferences_table, user_id, body_ok, body,
                                         put_ok, now))

NextApi ==
    \/ Wait({300})
    \/ RegisterPushToken
    \/ UpdatePreferences

SpecApi == InitApi /\ [][NextApi]_vars

\* the push tokens stored for the user
StoredTokens(table, user_id) ==
    { i.push_token : i \in { x \in get_item_preferences(table, user_id) : truthy(x.push_token) } }

\* send_push_notification attempts the delivery to the user of the item
Deliverable(table, user_id) ==
    \E i \in get_item_preferences(table, user_id) :
       send_push_notification([i EXCEPT !.push_token = truthy(@)], <<>>, TRUE, 1).success

\* C39: a call of handle_update_preferences whose body holds no push_token
\* leaves the push token stored for each user as it was, and a user who was
\* deliverable stays deliverable.
C39_TokenKeptAcrossUpdate ==
    [][ (/\ ops' # ops
         /\ result'.op = "handle_update_preferences"
         /\ "push_token" \notin DOMAIN result'.body)
        => \A u \in ApiUsers \ {""} :
              StoredTokens(preferences_table, u) # {}
                 => /\ StoredTokens(preferences_table', u) = StoredTokens(preferences_table, u)
                    /\ Deliverable(preferences_table', u) ]_vars

-----------------------------------------------------------------------------
(* Test notifications and the rate limiter *)

\* operations of one behaviour: a test notification and an evaluation of the limiter
MaxTestOps == 2

\* the store and the platform answer, or one of the calls of a test send fails
TestOutcomes ==
    { Smooth,
      [Smooth EXCEPT !.latency = 1],
      [Smooth EXCEPT !.prefsScan = FALSE],
      [Smooth EXCEPT !.rlRead = FALSE],
      [Smooth EXCEPT !.accepted = FALSE],
      [Smooth EXCEPT !.rlWrite = FALSE] }

TestOperation(A) ==
    /\ script = Free
    /\ ops < MaxTestOps
    /\ A
    /\ ops' = ops + 1
    /\ UNCHANGED <<script, period, endpoints, ticks, saves, cycles, rule, preferences_table>>

TestSend ==
    \E u \in {"u1", "u3"}, o \in TestOutcomes : TestOperation(SendTestNotification(u, o))

CheckAfterTest ==
    \E content \in {ArsenalContent(4, 5)}, ok \in BOOLEAN :
        TestOperation(CanSendNotification("u1", content, ok))

NextTest ==
    \/ Wait(LimiterDeltas)
    \/ TestSend
    \/ CheckAfterTest

SpecTest == InitLimiter /\ [][NextTest]_vars

\* the records of test notifications of u
TestRecordsOf(u) == { n \in RecordsOf(u) : n.notification_type = "test" }

\* the test notification of the result has its record
TestRecorded(r) ==
    \E n \in TestRecordsOf(r.user_id) : n.message_id = r.message_id

\* send_test_notification read the preferences of the user
TestEvaluated(r) ==
    /\ r.op = "send_test_notification"
    /\ r.rate_limit # "not evaluated"

\* a later evaluation for a position change counts every record of the user,
\* those of test notifications included, in the hourly, daily and spacing checks
CountsTestRecords(r) ==
    LET u == r.user_id
    IN  /\ (/\ Cardinality(SendsWithin(u, now, HourSeconds)) >= max_notifications_per_hour
            /\ now - LastSend(u) < cooldown_after_burst) => ~r.can_send
        /\ Cardinality(SendsWithin(u, now, DaySeconds)) >= max_notifications_per_day
              => ~r.can_send
        /\ (\E n \in RecordsOf(u) : now - n.timestamp < min_time_between_notifications)
              => ~r.can_send

====
